---- MODULE Spec2Model ----
(***************************************************************************)
(* Model of the IAM user lifecycle management system.                      *)
(*                                                                         *)
(* scripts/python/iam_provisioner.py: the request validation, the          *)
(* retry_on_throttle and audit_log decorators, the create_user             *)
(* orchestration with its collaborator calls, the password generator, the  *)
(* bulk provisioning loop and the summary.                                 *)
(*                                                                         *)
(* scripts/python/compliance_audit.py: the per-identity and account-level  *)
(* rules, run_full_audit and the report.                                   *)
(*                                                                         *)
(* Strings are modelled as sequences of characters where the code looks    *)
(* inside them (username length, "@" in the email, the password) and as    *)
(* TLA+ strings where it only compares or copies them (group names,        *)
(* policy ARNs, error codes).                                              *)
(***************************************************************************)
EXTENDS Integers, Sequences, FiniteSets, TLC

\* ------------------------------------------------------------------------
\* Bounds of the model
\* ------------------------------------------------------------------------
MaxRows == 2
MaxRetriesArg == 3
MaxBaseDelay == 2
MaxThrottled == 3
MaxUsernameLen == 66
MaxUsers == 2
MaxKeys == 2
MaxRuns == 2
MaxFindings == 3

\* ------------------------------------------------------------------------
\* Configuration (iam_provisioner.py, CONFIGURATION section)
\* ------------------------------------------------------------------------
DEFAULT_GROUP == "StandardUsers"
PASSWORD_LENGTH == 16
DEFAULT_MAX_RETRIES == 3
DEFAULT_BASE_DELAY == 1

DEPARTMENT_GROUPS ==
    [d \in {"IT", "Finance", "HR", "Engineering", "Marketing", "Sales"} |->
        CASE d = "IT" -> <<"IT-Users", "VPN-Access", "CloudWatch-ReadOnly">>
          [] d = "Finance" -> <<"Finance-Users", "Billing-ReadOnly">>
          [] d = "HR" -> <<"HR-Users", "Employee-Records-Access">>
          [] d = "Engineering" -> <<"Engineering-Users", "Developer-Tools", "S3-Dev-Access">>
          [] d = "Marketing" -> <<"Marketing-Users", "Analytics-ReadOnly">>
          [] d = "Sales" -> <<"Sales-Users", "CRM-Access">>]

ROLE_POLICIES ==
    [r \in {"Developer", "Analyst", "Admin", "Manager"} |->
        CASE r = "Developer" -> <<"arn:aws:iam::aws:policy/PowerUserAccess">>
          [] r = "Analyst" -> <<"arn:aws:iam::aws:policy/ReadOnlyAccess">>
          [] r = "Admin" -> <<"arn:aws:iam::aws:policy/AdministratorAccess">>
          [] r = "Manager" -> <<"arn:aws:iam::aws:policy/ReadOnlyAccess">>]

None == "None"

\* ------------------------------------------------------------------------
\* Generic sequence helpers
\* ------------------------------------------------------------------------
Range(s) == {s[i] : i \in 1..Len(s)}

\* s * n for a one-character string: n copies of c
Rep(c, n) == [i \in 1..n |-> c]

\* list.remove(x): delete the first occurrence of x (x is known to occur)
RemoveFirst(s, x) ==
    LET i == CHOOSE k \in 1..Len(s) : s[k] = x /\ \A j \in 1..(k - 1) : s[j] # x
    IN  SubSeq(s, 1, i - 1) \o SubSeq(s, i + 1, Len(s))

\* ------------------------------------------------------------------------
\* _generate_password
\* ------------------------------------------------------------------------
\* string.ascii_uppercase, string.ascii_lowercase, string.digits and the
\* symbol set, each by representative characters: the code distinguishes
\* characters by class only (isupper / islower / isdigit).
UpperChars == {"A"}
LowerChars == {"a"}
DigitChars == {"0"}
SymbolChars == {"!"}
Alphabet == UpperChars \cup LowerChars \cup DigitChars \cup SymbolChars

isupper(c) == c \in UpperChars
islower(c) == c \in LowerChars
isdigit(c) == c \in DigitChars

\* any(c.isupper() for c in p), any(c.islower() ...), any(c.isdigit() ...)
AnyUpper(p) == \E i \in 1..Len(p) : isupper(p[i])
AnyLower(p) == \E i \in 1..Len(p) : islower(p[i])
AnyDigit(p) == \E i \in 1..Len(p) : isdigit(p[i])

\* The three patches of _generate_password applied to a raw draw `password`;
\* u, l, d are the characters secrets.choice would return for each patch.
GeneratePassword(password, u, l, d) ==
    LET p1 == IF ~AnyUpper(password)
              THEN <<u>> \o SubSeq(password, 2, Len(password))
              ELSE password
        p2 == IF ~AnyLower(p1)
              THEN <<p1[1]>> \o <<l>> \o SubSeq(p1, 3, Len(p1))
              ELSE p1
        p3 == IF ~AnyDigit(p2)
              THEN SubSeq(p2, 1, 2) \o <<d>> \o SubSeq(p2, 4, Len(p2))
              ELSE p2
    IN  p3

\* Raw draws: ''.join(secrets.choice(alphabet) for _ in range(PASSWORD_LENGTH)).
\* The code reads positions 0, 1, 2 individually and the other positions only
\* through any(...), so the draws are enumerated up to a permutation of the
\* positions 3..PASSWORD_LENGTH-1: every head of three characters, and for
\* the tail one representative per set of characters occurring in it.
AlphabetSeq == <<"A", "a", "0", "!">>

TailOf(S) ==
    LET sel == SelectSeq(AlphabetSeq, LAMBDA c : c \in S)
    IN  [i \in 1..(PASSWORD_LENGTH - 3) |-> sel[((i - 1) % Len(sel)) + 1]]

RawDraws ==
    {h \o TailOf(S) : h \in [1..3 -> Alphabet], S \in (SUBSET Alphabet) \ {{}}}


\* ------------------------------------------------------------------------
\* Outcomes of a call: a returned value or a raised exception
\* ------------------------------------------------------------------------
Value(v) == [kind |-> "value", value |-> v]
Raised(e) == [kind |-> "error", exc |-> e]

\* A ClientError carries e.response['Error']['Code'] and ['Message'];
\* `op` is the operation that raised it (it is part of str(e)) and `at`
\* tells apart two errors of the same code raised by different calls.
ClientError(code, op, at) == [cls |-> "ClientError", code |-> code, op |-> op, at |-> at]
OtherError(cls, op, at) == [cls |-> cls, code |-> "", op |-> op, at |-> at]

\* isinstance(e, cls) for the classes imported from botocore.exceptions:
\* ParamValidationError derives from BotoCoreError; ClientError does not.
IsInstance(e, cls) ==
    CASE cls = "Exception" -> TRUE
      [] cls = "ClientError" -> e.cls = "ClientError"
      [] cls = "BotoCoreError" -> e.cls \in {"BotoCoreError", "ParamValidationError"}
      [] cls = "ParamValidationError" -> e.cls = "ParamValidationError"
      [] OTHER -> FALSE

ThrottleCodes == {"Throttling", "RequestLimitExceeded"}

\* 2 ** n
RECURSIVE Pow2(_)
Pow2(n) == IF n = 0 THEN 1 ELSE 2 * Pow2(n - 1)

\* ------------------------------------------------------------------------
\* retry_on_throttle: what the wrapper does with the outcome of one call of
\* the wrapped function, made in loop iteration `attempt`
\* ------------------------------------------------------------------------
RetryOnThrottleRetriesAnyClientError(outcome, attempt, max_retries, base_delay) ==
    IF outcome.kind = "value"
    THEN [do |-> "return", delay |-> 0]
    ELSE IF /\ IsInstance(outcome.exc, "ClientError")
            /\ attempt < max_retries - 1
         THEN [do |-> "sleep", delay |-> base_delay * Pow2(attempt)]
         ELSE [do |-> "raise", delay |-> 0]

RetryOnThrottleSleepsOnLastAttempt(outcome, attempt, max_retries, base_delay) ==
    IF outcome.kind = "value"
    THEN [do |-> "return", delay |-> 0]
    ELSE IF /\ IsInstance(outcome.exc, "ClientError")
            /\ outcome.exc.code \in ThrottleCodes
            /\ attempt < max_retries
         THEN [do |-> "sleep", delay |-> base_delay * Pow2(attempt)]
         ELSE [do |-> "raise", delay |-> 0]

RetryOnThrottle(outcome, attempt, max_retries, base_delay) ==
    IF outcome.kind = "value"
    THEN [do |-> "return", delay |-> 0]
    ELSE IF /\ IsInstance(outcome.exc, "ClientError")
            /\ outcome.exc.code \in ThrottleCodes
            /\ attempt < max_retries - 1
         THEN [do |-> "sleep", delay |-> base_delay * Pow2(attempt)]
         ELSE [do |-> "raise", delay |-> 0]

\* ------------------------------------------------------------------------
\* audit_log: the entry written to the audit trail and the outcome handed
\* to the caller, for the outcome of the wrapped function
\* ------------------------------------------------------------------------
AuditLogSwallowsError(action, outcome) ==
    IF outcome.kind = "value"
    THEN [entry |-> [action |-> action, status |-> "SUCCESS", error |-> None],
          outcome |-> outcome]
    ELSE [entry |-> [action |-> action, status |-> "FAILED", error |-> outcome.exc],
          outcome |-> Value(None)]

AuditLog(action, outcome) ==
    IF outcome.kind = "value"
    THEN [entry |-> [action |-> action, status |-> "SUCCESS", error |-> None],
          outcome |-> outcome]
    ELSE [entry |-> [action |-> action, status |-> "FAILED", error |-> outcome.exc],
          outcome |-> outcome]


\* ------------------------------------------------------------------------
\* UserRequest and ProvisioningResult
\* ------------------------------------------------------------------------
UserRequest(username, email, department, role, first_name, last_name, manager) ==
    [username |-> username, email |-> email, department |-> department,
     role |-> role, first_name |-> first_name, last_name |-> last_name,
     manager |-> manager]

\* bool(x) of a string: a string is true when it is not empty. Username and
\* email are sequences of characters, department and role are atoms.
TruthySeq(x) == Len(x) > 0
TruthyStr(x) == x # ""

AllRequired(r) ==
    TruthySeq(r.username) /\ TruthySeq(r.email) /\ TruthyStr(r.department) /\ TruthyStr(r.role)

ValidateLengthExclusive(r) ==
    IF ~AllRequired(r)
    THEN FALSE
    ELSE IF "@" \notin Range(r.email)
    THEN FALSE
    ELSE IF Len(r.username) <= 3 \/ Len(r.username) >= 64
    THEN FALSE
    ELSE TRUE

Validate(r) ==
    IF ~AllRequired(r)
    THEN FALSE
    ELSE IF "@" \notin Range(r.email)
    THEN FALSE
    ELSE IF Len(r.username) < 3 \/ Len(r.username) > 64
    THEN FALSE
    ELSE TRUE

ProvisioningResult(username, success, message, ga, pa, credentials_location) ==
    [username |-> username, success |-> success, message |-> message,
     groups_assigned |-> ga, policies_attached |-> pa,
     credentials_location |-> credentials_location]

\* str(e): the text of an exception, by the class and error code it is made
\* of (the operation name and the service's own wording are left out)
Str(e) == <<"str", e.cls, e.code>>

\* e.response['Error']['Message']
ResponseMessage(e) == <<"Message", e.code>>

\* The except clauses of create_user, tried in the order written
ErrorMessage(e, r) ==
    IF IsInstance(e, "ClientError")
    THEN CASE e.code = "EntityAlreadyExists" -> <<"User ", r.username, " already exists">>
           [] e.code = "LimitExceeded" -> <<"IAM user limit reached - contact AWS support">>
           [] e.code = "MalformedPolicyDocument" -> <<"Invalid policy document">>
           [] e.code = "NoSuchEntity" -> <<"Referenced resource not found">>
           [] e.code = "InvalidInput" -> <<"Invalid input: ", ResponseMessage(e)>>
           [] OTHER -> Str(e)
    ELSE IF IsInstance(e, "BotoCoreError")
    THEN <<"AWS connection error: ", Str(e)>>
    ELSE IF IsInstance(e, "ParamValidationError")
    THEN <<"Parameter validation error: ", Str(e)>>
    ELSE <<"Unexpected error: ", Str(e)>>

\* What the body of create_user does with an exception raised by a step:
\* every except clause returns a failure result built from the locals
\* groups_assigned and policies_attached as they are at that moment.
CreateUserExceptReraises(e, r, groups_assigned, policies_attached) ==
    IF IsInstance(e, "ClientError")
    THEN Raised(e)
    ELSE Value(ProvisioningResult(r.username, FALSE, ErrorMessage(e, r),
                                  groups_assigned, policies_attached, None))

CreateUserExcept(e, r, groups_assigned, policies_attached) ==
    Value(ProvisioningResult(r.username, FALSE, ErrorMessage(e, r),
                             groups_assigned, policies_attached, None))

\* secret_name = f"iam-credentials/{department}/{username}"
SecretName(r) == <<"iam-credentials/", r.department, "/", r.username>>

\* f"secretsmanager:{secret_name}"
CredsLocationEmpty(r) == <<>>

CredsLocation(r) == <<"secretsmanager:">> \o SecretName(r)

\* The order of the steps in the body of create_user
StepOrder ==
    <<"CreateIdentity", "AssignGroups", "AttachPolicies", "GeneratePassword",
      "SetCredentialProfile", "PersistSecret", "Notify">>

StepAfterSwapped(step) ==
    CASE step = "CreateIdentity" -> "AttachPolicies"
      [] step = "AttachPolicies" -> "AssignGroups"
      [] step = "AssignGroups" -> "GeneratePassword"
      [] step = "GeneratePassword" -> "SetCredentialProfile"
      [] step = "SetCredentialProfile" -> "PersistSecret"
      [] step = "PersistSecret" -> "Notify"
      [] step = "Notify" -> "Success"

StepAfter(step) ==
    CASE step = "CreateIdentity" -> "AssignGroups"
      [] step = "AssignGroups" -> "AttachPolicies"
      [] step = "AttachPolicies" -> "GeneratePassword"
      [] step = "GeneratePassword" -> "SetCredentialProfile"
      [] step = "SetCredentialProfile" -> "PersistSecret"
      [] step = "PersistSecret" -> "Notify"
      [] step = "Notify" -> "Success"

\* History of the steps of the current run of the body: the last entry is
\* updated while its step is running, a new step appends an entry.
Touch(steps, name, status) ==
    IF Len(steps) > 0 /\ steps[Len(steps)].step = name
    THEN [steps EXCEPT ![Len(steps)].status = status]
    ELSE Append(steps, [step |-> name, status |-> status])


\* ------------------------------------------------------------------------
\* get_summary
\* ------------------------------------------------------------------------
\* [r for r in provisioned_users if r.success]
SuccessfulOf(pu) == SelectSeq(pu, LAMBDA r : r.success)

\* [r for r in provisioned_users if not r.success]
FailedOf(pu) == SelectSeq(pu, LAMBDA r : ~r.success)

\* f"{(s / max(n, 1)) * 100:.1f}%": the percentage rounded to one decimal
\* (to the nearest tenth, a tie to the even tenth), as the integer part,
\* the point, the decimal digit and the percent sign
SuccessRate(s, n) ==
    LET m == IF n > 1 THEN n ELSE 1
        q == (1000 * s) \div m
        r == (1000 * s) % m
        t == IF 2 * r > m THEN q + 1
             ELSE IF 2 * r < m THEN q
             ELSE IF q % 2 = 0 THEN q ELSE q + 1
    IN  <<t \div 10, ".", t % 10, "%">>

GetSummaryCountsAllAsFailed(pu) ==
    [total_processed |-> Len(pu),
     successful |-> Len(SuccessfulOf(pu)),
     failed |-> Len(pu),
     success_rate |-> SuccessRate(Len(SuccessfulOf(pu)), Len(pu)),
     users_provisioned |-> [i \in 1..Len(SuccessfulOf(pu)) |-> SuccessfulOf(pu)[i].username],
     users_failed |-> [i \in 1..Len(FailedOf(pu)) |->
                          [username |-> FailedOf(pu)[i].username,
                           error |-> FailedOf(pu)[i].message]]]

GetSummary(pu) ==
    [total_processed |-> Len(pu),
     successful |-> Len(SuccessfulOf(pu)),
     failed |-> Len(FailedOf(pu)),
     success_rate |-> SuccessRate(Len(SuccessfulOf(pu)), Len(pu)),
     users_provisioned |-> [i \in 1..Len(SuccessfulOf(pu)) |-> SuccessfulOf(pu)[i].username],
     users_failed |-> [i \in 1..Len(FailedOf(pu)) |->
                          [username |-> FailedOf(pu)[i].username,
                           error |-> FailedOf(pu)[i].message]]]


\* ------------------------------------------------------------------------
\* Compliance audit (scripts/python/compliance_audit.py): configuration,
\* timestamps and findings
\* ------------------------------------------------------------------------
MAX_ACCESS_KEY_AGE_DAYS == 90
MAX_UNUSED_DAYS == 45

\* Time is counted in ticks of half a day, so that a time delta has a
\* fraction of a day for timedelta.days to drop.
TicksPerDay == 2

\* A timestamp as the code meets it: None, an aware datetime, or its ISO
\* text; `age` is the time from the timestamp to datetime.now(timezone.utc),
\* in ticks (the clock does not advance during one audit).
NoneValue == [type |-> "NoneType", age |-> 0]
Datetime(age) == [type |-> "datetime", age |-> age]
IsoString(age) == [type |-> "str", age |-> age]

\* datetime.fromisoformat(s.replace('Z', '+00:00'))
FromIsoFormat(s) == Datetime(s.age)

\* (datetime.now(timezone.utc) - t).days, after the isinstance(t, str) conversion
DaysSince(t) ==
    LET dt == IF t.type = "str" THEN FromIsoFormat(t) ELSE t
    IN  dt.age \div TicksPerDay

\* a dict without keys, and dict.get(key, default)
EmptyDict == [k \in {} |-> 0]

Get(d, key, default) == IF key \in DOMAIN d THEN d[key] ELSE default

\* Finding (description and recommendation are fixed texts of the rule and
\* are left out); resource_id is the sequence of the pieces of the string
Finding(rule_id, rule_name, resource_type, resource_id, severity, status, details) ==
    [rule_id |-> rule_id, rule_name |-> rule_name, resource_type |-> resource_type,
     resource_id |-> resource_id, severity |-> severity, status |-> status,
     details |-> details]

\* ------------------------------------------------------------------------
\* The per-identity rules: the findings each appends for one user
\* ------------------------------------------------------------------------
CheckMfaEnabledIgnoresConsole(user) ==
    LET has_mfa == Len(Get(user, "MFADevices", <<>>)) > 0
    IN  IF ~has_mfa
        THEN << Finding("CIS-1.2", "MFA for Console Users", "IAM User",
                        <<user.UserName>>, "HIGH", "NON_COMPLIANT",
                        [has_console_access |-> TRUE, mfa_enabled |-> FALSE]) >>
        ELSE <<>>

CheckMfaEnabled(user) ==
    LET has_mfa == Len(Get(user, "MFADevices", <<>>)) > 0
        has_console == Get(user, "PasswordLastUsed", NoneValue).type # "NoneType"
    IN  IF has_console /\ ~has_mfa
        THEN << Finding("CIS-1.2", "MFA for Console Users", "IAM User",
                        <<user.UserName>>, "HIGH", "NON_COMPLIANT",
                        [has_console_access |-> TRUE, mfa_enabled |-> FALSE]) >>
        ELSE <<>>

\* the finding of _check_access_key_age for one key
KeyAgeFinding(user, key) ==
    Finding("CIS-1.4", "Access Key Rotation", "IAM Access Key",
            <<user.UserName, "/", key.AccessKeyId>>, "MEDIUM", "NON_COMPLIANT",
            [key_age_days |-> DaysSince(key.CreateDate),
             threshold |-> MAX_ACCESS_KEY_AGE_DAYS])

\* for key in user.get('AccessKeys', []): the keys from position i on
RECURSIVE KeyAgeLoopInclusive(_, _, _)
KeyAgeLoopInclusive(user, keys, i) ==
    IF i > Len(keys)
    THEN <<>>
    ELSE IF keys[i].Status # "Active"
    THEN KeyAgeLoopInclusive(user, keys, i + 1)
    ELSE IF DaysSince(keys[i].CreateDate) >= MAX_ACCESS_KEY_AGE_DAYS
    THEN <<KeyAgeFinding(user, keys[i])>> \o KeyAgeLoopInclusive(user, keys, i + 1)
    ELSE KeyAgeLoopInclusive(user, keys, i + 1)

RECURSIVE KeyAgeLoop(_, _, _)
KeyAgeLoop(user, keys, i) ==
    IF i > Len(keys)
    THEN <<>>
    ELSE IF keys[i].Status # "Active"
    THEN KeyAgeLoop(user, keys, i + 1)
    ELSE IF DaysSince(keys[i].CreateDate) > MAX_ACCESS_KEY_AGE_DAYS
    THEN <<KeyAgeFinding(user, keys[i])>> \o KeyAgeLoop(user, keys, i + 1)
    ELSE KeyAgeLoop(user, keys, i + 1)

CheckAccessKeyAgeInclusive(user) == KeyAgeLoopInclusive(user, Get(user, "AccessKeys", <<>>), 1)

CheckAccessKeyAge(user) == KeyAgeLoop(user, Get(user, "AccessKeys", <<>>), 1)

\* bool(last_used): None is false, a datetime or a non-empty text is true
Truthy(t) == t.type # "NoneType"

CheckUnusedCredentialsInclusive(user) ==
    LET last_used == Get(user, "PasswordLastUsed", NoneValue)
    IN  IF Truthy(last_used) /\ DaysSince(last_used) >= MAX_UNUSED_DAYS
        THEN << Finding("CIS-1.3", "Unused Credentials", "IAM User Password",
                        <<user.UserName>>, "MEDIUM", "NON_COMPLIANT",
                        [days_unused |-> DaysSince(last_used),
                         threshold |-> MAX_UNUSED_DAYS]) >>
        ELSE <<>>

CheckUnusedCredentialsFlagsNeverUsed(user) ==
    LET last_used == Get(user, "PasswordLastUsed", NoneValue)
    IN  IF ~Truthy(last_used) \/ DaysSince(last_used) > MAX_UNUSED_DAYS
        THEN << Finding("CIS-1.3", "Unused Credentials", "IAM User Password",
                        <<user.UserName>>, "MEDIUM", "NON_COMPLIANT",
                        [days_unused |-> IF Truthy(last_used) THEN DaysSince(last_used) ELSE 0,
                         threshold |-> MAX_UNUSED_DAYS]) >>
        ELSE <<>>

CheckUnusedCredentials(user) ==
    LET last_used == Get(user, "PasswordLastUsed", NoneValue)
    IN  IF Truthy(last_used) /\ DaysSince(last_used) > MAX_UNUSED_DAYS
        THEN << Finding("CIS-1.3", "Unused Credentials", "IAM User Password",
                        <<user.UserName>>, "MEDIUM", "NON_COMPLIANT",
                        [days_unused |-> DaysSince(last_used),
                         threshold |-> MAX_UNUSED_DAYS]) >>
        ELSE <<>>

CheckMultipleAccessKeys(user) ==
    LET active_keys == SelectSeq(Get(user, "AccessKeys", <<>>),
                                 LAMBDA k : k.Status = "Active")
    IN  IF Len(active_keys) > 1
        THEN << Finding("BP-1", "Multiple Access Keys", "IAM User",
                        <<user.UserName>>, "LOW", "NON_COMPLIANT",
                        [active_key_count |-> Len(active_keys)]) >>
        ELSE <<>>

CheckDirectPolicyAttachment(user) ==
    LET direct_policies == Get(user, "AttachedPolicies", <<>>)
    IN  IF Len(direct_policies) > 0
        THEN << Finding("BP-2", "Direct Policy Attachment", "IAM User",
                        <<user.UserName>>, "LOW", "NON_COMPLIANT",
                        [policies |-> [i \in 1..Len(direct_policies) |->
                                          direct_policies[i].PolicyName]]) >>
        ELSE <<>>

admin_policies == <<"AdministratorAccess", "PowerUserAccess">>

CheckAdminPrivilegesOncePerUser(user) ==
    LET matching == SelectSeq(Get(user, "AttachedPolicies", <<>>),
                              LAMBDA pol : pol.PolicyName \in Range(admin_policies))
    IN  IF Len(matching) > 0
        THEN << Finding("CIS-1.16", "Admin Privilege Check", "IAM User",
                        <<user.UserName>>, "CRITICAL", "NON_COMPLIANT",
                        [policy |-> matching[1].PolicyName]) >>
        ELSE <<>>

CheckAdminPrivileges(user) ==
    LET matching == SelectSeq(Get(user, "AttachedPolicies", <<>>),
                              LAMBDA pol : pol.PolicyName \in Range(admin_policies))
    IN  [i \in 1..Len(matching) |->
            Finding("CIS-1.16", "Admin Privilege Check", "IAM User",
                    <<user.UserName>>, "CRITICAL", "NON_COMPLIANT",
                    [policy |-> matching[i].PolicyName])]

\* ------------------------------------------------------------------------
\* The account-level rules
\* ------------------------------------------------------------------------
CheckPasswordPolicy(demo) ==
    IF demo
    THEN << Finding("CIS-1.9", "Password Reuse Prevention", "Account Password Policy",
                    <<"PasswordPolicy">>, "MEDIUM", "NON_COMPLIANT",
                    [current_value |-> 12, required_value |-> 24]) >>
    ELSE <<>>

CheckRootAccountInEveryMode(demo) ==
    << Finding("CIS-1.1", "Root Account Usage", "Root Account",
               <<"root">>, "INFO", "COMPLIANT",
               [last_used |-> "Never or >90 days"]) >>

CheckRootAccount(demo) ==
    IF demo
    THEN << Finding("CIS-1.1", "Root Account Usage", "Root Account",
                    <<"root">>, "INFO", "COMPLIANT",
                    [last_used |-> "Never or >90 days"]) >>
    ELSE <<>>

\* ------------------------------------------------------------------------
\* _generate_report
\* ------------------------------------------------------------------------
CountSeverity(fs, sev) == Len(SelectSeq(fs, LAMBDA f : f.severity = sev))

\* compliance_score = ((total_checks - non_compliant) / max(total_checks, 1)) * 100,
\* kept as the exact fraction num / den
ComplianceScoreCountsCompliantOnly(fs) ==
    LET compliant == Len(SelectSeq(fs, LAMBDA f : f.status = "COMPLIANT"))
        total_checks == Len(fs)
    IN  [num |-> compliant * 100,
         den |-> IF total_checks > 1 THEN total_checks ELSE 1]

ComplianceScore(fs) ==
    LET non_compliant == Len(SelectSeq(fs, LAMBDA f : f.status = "NON_COMPLIANT"))
        total_checks == Len(fs)
    IN  [num |-> (total_checks - non_compliant) * 100,
         den |-> IF total_checks > 1 THEN total_checks ELSE 1]

GenerateReportLowCountsInfo(fs, total_users) ==
    [total_users |-> total_users,
     total_findings |-> Len(fs),
     critical_count |-> CountSeverity(fs, "CRITICAL"),
     high_count |-> CountSeverity(fs, "HIGH"),
     medium_count |-> CountSeverity(fs, "MEDIUM"),
     low_count |-> CountSeverity(fs, "LOW") + CountSeverity(fs, "INFO"),
     compliance_score |-> ComplianceScore(fs),
     findings |-> fs]

GenerateReport(fs, total_users) ==
    [total_users |-> total_users,
     total_findings |-> Len(fs),
     critical_count |-> CountSeverity(fs, "CRITICAL"),
     high_count |-> CountSeverity(fs, "HIGH"),
     medium_count |-> CountSeverity(fs, "MEDIUM"),
     low_count |-> CountSeverity(fs, "LOW"),
     compliance_score |-> ComplianceScore(fs),
     findings |-> fs]

\* ------------------------------------------------------------------------
\* run_full_audit: the order of the rules
\* ------------------------------------------------------------------------
RuleOrder ==
    <<"check_mfa_enabled", "check_access_key_age", "check_unused_credentials",
      "check_multiple_access_keys", "check_direct_policy_attachment",
      "check_admin_privileges">>

\* for user in users: where the loop goes with the user at position i
LoopHead(i, n) == IF i <= n THEN RuleOrder[1] ELSE "check_password_policy"

RuleAfterSkipsOnFinding(rule, i, n, found) ==
    IF found
    THEN LoopHead(i + 1, n)
    ELSE CASE rule = "check_mfa_enabled" -> "check_access_key_age"
           [] rule = "check_access_key_age" -> "check_unused_credentials"
           [] rule = "check_unused_credentials" -> "check_multiple_access_keys"
           [] rule = "check_multiple_access_keys" -> "check_direct_policy_attachment"
           [] rule = "check_direct_policy_attachment" -> "check_admin_privileges"
           [] rule = "check_admin_privileges" -> LoopHead(i + 1, n)

\* the statement that follows a rule in the body of the loop; `found` tells
\* whether the rule appended a finding (the code does not look at it)
RuleAfter(rule, i, n, found) ==
    CASE rule = "check_mfa_enabled" -> "check_access_key_age"
      [] rule = "check_access_key_age" -> "check_unused_credentials"
      [] rule = "check_unused_credentials" -> "check_multiple_access_keys"
      [] rule = "check_multiple_access_keys" -> "check_direct_policy_attachment"
      [] rule = "check_direct_policy_attachment" -> "check_admin_privileges"
      [] rule = "check_admin_privileges" -> LoopHead(i + 1, n)


\* ------------------------------------------------------------------------
\* State
\* ------------------------------------------------------------------------
VARIABLES
    demo_mode,          \* IAMProvisioner.demo_mode
    fault,              \* environment: the kind of error a collaborator call may raise
    missing,            \* environment: the groups IAM reports as non-existent
    secrets,            \* environment: the names of the secrets that exist
    rows,               \* provision_from_csv: the requests read so far
    results,            \* provision_from_csv: results
    provisioned_users,  \* IAMProvisioner.provisioned_users
    pu0,                \* provisioned_users when the current create_user call began
    pc,                 \* position in the code
    groups_assigned,    \* create_user local
    policies_attached,  \* create_user local
    groups,             \* _assign_groups local: the list being iterated
    gi,                 \* _assign_groups: position of the list iterator (0: not entered)
    policies,           \* _attach_policies local
    pi,                 \* _attach_policies: position of the list iterator (0: not entered)
    pwRaw,              \* _generate_password: the raw random draw
    password,           \* _generate_password: the password returned
    creds_location,     \* create_user local
    steps,              \* history: the steps of create_user run for this call
    calls,              \* history: the collaborator calls made for this call
    bodyOut,            \* outcome of the wrapped function (the body of create_user)
    rtOut,              \* outcome of the retry_on_throttle wrapper
    auOut,              \* outcome of the audit_log wrapper, as the caller sees it
    max_retries,        \* retry_on_throttle argument
    base_delay,         \* retry_on_throttle argument
    attempt,            \* retry_on_throttle loop variable
    sleeps,             \* history: the delays slept by retry_on_throttle in this call
    fnCalls,            \* history: outcomes of the wrapped function's calls in this call
    auInner,            \* history: times audit_log invoked what it wraps in this call
    auLog,              \* the audit trail
    fnK,                \* stub function: number of leading calls that are throttled
    fnCode,             \* stub function: the throttling code it is rejected with
    fnThen,             \* stub function: what it does once it is no longer throttled
    summary,            \* the dictionary returned by get_summary
    self,               \* UserRequest.validate: the request it is called on
    valid,              \* UserRequest.validate: the value returned
    audit_demo_mode,    \* IAMComplianceAuditor.demo_mode
    users,              \* run_full_audit local: the list returned by _get_users
    ui,                 \* run_full_audit: position of `for user in users`
    findings,           \* IAMComplianceAuditor.findings
    before,             \* history: findings when the rule last run was entered
    report,             \* the AuditReport returned by run_full_audit
    caller,             \* who calls the rule: run_full_audit, or a direct call
    runs,               \* the number of times run_full_audit was called on the auditor
    department_groups,  \* the module-level table DEPARTMENT_GROUPS as it is now
    role_policies       \* the module-level table ROLE_POLICIES as it is now

envVars == <<demo_mode, fault, missing>>
csvVars == <<rows, results>>
localVars == <<groups_assigned, policies_attached, groups, gi, policies, pi,
               pwRaw, password, creds_location>>
decArgs == <<max_retries, base_delay>>
stubVars == <<fnK, fnCode, fnThen>>
unitVars == <<summary, self, valid>>
auditVars == <<audit_demo_mode, users, ui, findings, before, report, caller, runs>>
tableVars == <<department_groups, role_policies>>
restVars == <<stubVars, unitVars, auditVars, tableVars>>

vars == <<demo_mode, fault, missing, secrets, rows, results, provisioned_users, pu0,
          pc, groups_assigned, policies_attached, groups, gi, policies, pi, pwRaw,
          password, creds_location, steps, calls, bodyOut, rtOut, auOut,
          max_retries, base_delay, attempt, sleeps, fnCalls, auInner, auLog,
          fnK, fnCode, fnThen, summary, self, valid,
          audit_demo_mode, users, ui, findings, before, report, caller, runs,
          department_groups, role_policies>>

\* ------------------------------------------------------------------------
\* The configuration tables as _assign_groups, _attach_policies and
\* create_user read them
\* ------------------------------------------------------------------------
TargetGroupsWithoutDefault(department) ==
    IF department \in DOMAIN department_groups
    THEN department_groups[department]
    ELSE <<>>

\* groups = [DEFAULT_GROUP]; groups.extend(DEPARTMENT_GROUPS[department])
TargetGroups(department) ==
    IF department \in DOMAIN department_groups
    THEN <<DEFAULT_GROUP>> \o department_groups[department]
    ELSE <<DEFAULT_GROUP>>

\* groups.remove(group) in _assign_groups, seen from the table: `groups` is a
\* list built by [DEFAULT_GROUP] and extend(), which copies the table's
\* entries, so the table's own list is not the one that shrinks
TableAfterRemoveAliased(table, department, group) ==
    IF department \in DOMAIN table /\ group \in Range(table[department])
    THEN [table EXCEPT ![department] = RemoveFirst(@, group)]
    ELSE table

TableAfterRemove(table, department, group) == table

\* policies = ROLE_POLICIES[role] when the role is known, else []
TargetPolicies(role) ==
    IF role \in DOMAIN role_policies THEN role_policies[role] ELSE <<>>

ValidationFailedReportsTargets(r) ==
    ProvisioningResult(r.username, FALSE, <<"Validation failed">>,
                       TargetGroups(r.department), TargetPolicies(r.role), None)

ValidationFailed(r) ==
    ProvisioningResult(r.username, FALSE, <<"Validation failed">>, <<>>, <<>>, None)

\* ------------------------------------------------------------------------
\* Inputs
\* ------------------------------------------------------------------------
ClientErrorCodes ==
    {"Throttling", "RequestLimitExceeded", "EntityAlreadyExists", "LimitExceeded",
     "MalformedPolicyDocument", "NoSuchEntity", "InvalidInput", "AccessDenied"}

FaultKinds == ClientErrorCodes \cup {"BotoCoreError", "ParamValidationError", "Exception"}

MakeError(kind, op, at) ==
    IF kind \in ClientErrorCodes \cup {"ResourceExistsException"}
    THEN ClientError(kind, op, at)
    ELSE OtherError(kind, op, at)

Bob == <<"b", "o", "b">>
Amy == <<"a", "m", "y">>
GoodEmail == <<"a", "@", "c">>

MainRequests ==
    { UserRequest(Bob, GoodEmail, "Finance", "Analyst", "Bob", "B", None),
      UserRequest(Amy, GoodEmail, "Ops", "Employee", "Amy", "A", "bob"),
      UserRequest(<<"a", "l">>, GoodEmail, "Finance", "Analyst", "Al", "L", None),
      UserRequest(Bob, <<"a", "c">>, "Finance", "Analyst", "Bob", "B", None),
      UserRequest(Amy, GoodEmail, "", "Analyst", "Amy", "A", None),
      UserRequest(Rep("x", 65), GoodEmail, "Finance", "Analyst", "X", "X", None) }

\* The raw password draw used when a whole request is provisioned (every
\* draw is covered by SpecPassword)
MainDraws == { Rep("a", PASSWORD_LENGTH) }

NoOutcome == Value(None)

Request == rows[Len(rows)]

\* ------------------------------------------------------------------------
\* Initial states
\* ------------------------------------------------------------------------
LocalsInit ==
    /\ groups_assigned = <<>>
    /\ policies_attached = <<>>
    /\ groups = <<>>
    /\ gi = 0
    /\ policies = <<>>
    /\ pi = 0
    /\ pwRaw = <<>>
    /\ password = <<>>
    /\ creds_location = None

CallInit ==
    /\ steps = <<>>
    /\ calls = <<>>
    /\ bodyOut = NoOutcome
    /\ rtOut = NoOutcome
    /\ auOut = NoOutcome
    /\ attempt = 0
    /\ sleeps = <<>>
    /\ fnCalls = <<>>
    /\ auInner = 0
    /\ auLog = <<>>

StubIdle ==
    /\ fnK = 0
    /\ fnCode = None
    /\ fnThen = NoOutcome

UnitIdle ==
    /\ summary = None
    /\ self = None
    /\ valid = None

\* IAMComplianceAuditor(demo_mode), no audit running
AuditorIdle ==
    /\ audit_demo_mode = TRUE
    /\ users = <<>>
    /\ ui = 0
    /\ findings = <<>>
    /\ before = <<>>
    /\ report = None
    /\ caller = None
    /\ runs = 0

\* IAMProvisioner(demo_mode) followed by provision_from_csv
Init ==
    /\ department_groups = DEPARTMENT_GROUPS
    /\ role_policies = ROLE_POLICIES
    /\ demo_mode \in BOOLEAN
    /\ fault \in IF demo_mode THEN {None} ELSE FaultKinds
    /\ missing \in IF demo_mode THEN {{}} ELSE SUBSET Range(TargetGroups("Finance"))
    /\ secrets = {}
    /\ rows = <<>>
    /\ results = <<>>
    /\ provisioned_users = <<>>
    /\ pu0 = <<>>
    /\ pc = "csv_loop"
    /\ LocalsInit
    /\ CallInit
    /\ max_retries = DEFAULT_MAX_RETRIES
    /\ base_delay = DEFAULT_BASE_DELAY
    /\ StubIdle
    /\ UnitIdle
    /\ AuditorIdle


\* ------------------------------------------------------------------------
\* Collaborators
\* ------------------------------------------------------------------------
\* The errors with which the environment may reject a collaborator call, the
\* call being the n-th one made for the current request
Rejections(op, n) == {MakeError(fault, op, n)}

\* the result of a collaborator call that succeeded
Ok == [cls |-> "ok", code |-> "", op |-> "", at |-> 0]

IsError(res) == res.cls # "ok"

Call(op, arg, result) == [op |-> op, arg |-> arg, result |-> result]

\* ------------------------------------------------------------------------
\* provision_from_csv
\* ------------------------------------------------------------------------
\* for row in reader: request = UserRequest(...); self.create_user(request)
ReadRow ==
    /\ pc = "csv_loop"
    /\ Len(rows) < MaxRows
    /\ \E r \in MainRequests : rows' = Append(rows, r)
    /\ pu0' = provisioned_users
    /\ pc' = "call"
    /\ UNCHANGED <<envVars, secrets, results, provisioned_users, localVars, steps, calls,
                   bodyOut, rtOut, auOut, decArgs, attempt, sleeps, fnCalls, auInner,
                   auLog, restVars>>

\* result = self.create_user(request); results.append(result); an exception
\* raised by create_user leaves the loop and provision_from_csv. The locals
\* of the finished call (and the histories kept for it) are gone.
AppendResult ==
    /\ pc = "caller"
    /\ IF auOut.kind = "value"
       THEN /\ results' = Append(results, auOut.value)
            /\ pc' = "csv_loop"
       ELSE /\ results' = results
            /\ pc' = "crashed"
    /\ groups_assigned' = <<>> /\ policies_attached' = <<>> /\ groups' = <<>>
    /\ gi' = 0 /\ policies' = <<>> /\ pi' = 0 /\ pwRaw' = <<>> /\ password' = <<>>
    /\ creds_location' = None
    /\ steps' = <<>> /\ calls' = <<>>
    /\ bodyOut' = NoOutcome /\ rtOut' = NoOutcome /\ auOut' = NoOutcome
    /\ attempt' = 0 /\ sleeps' = <<>> /\ fnCalls' = <<>> /\ auInner' = 0
    /\ UNCHANGED <<envVars, secrets, rows, provisioned_users, pu0, decArgs, auLog,
                   restVars>>

\* the reader is exhausted: return results
EndOfFile ==
    /\ pc = "csv_loop"
    /\ pc' = "returned"
    /\ UNCHANGED <<envVars, secrets, csvVars, provisioned_users, pu0, localVars, steps,
                   calls, bodyOut, rtOut, auOut, decArgs, attempt, sleeps, fnCalls,
                   auInner, auLog, restVars>>

\* summary = self.get_summary(), once the batch has been processed
GetSummaryCall ==
    /\ pc = "returned"
    /\ summary' = GetSummary(provisioned_users)
    /\ pc' = "summarised"
    /\ UNCHANGED <<envVars, secrets, csvVars, provisioned_users, pu0, localVars, steps,
                   calls, bodyOut, rtOut, auOut, decArgs, attempt, sleeps, fnCalls,
                   auInner, auLog, stubVars, self, valid, auditVars, tableVars>>

\* ------------------------------------------------------------------------
\* The decorators around create_user: audit_log(retry_on_throttle(f))
\* ------------------------------------------------------------------------
\* audit_log wrapper: start_time = now(); result = func(...)
AuditEnter ==
    /\ pc = "call"
    /\ auInner' = auInner + 1
    /\ attempt' = 0
    /\ pc' = "retry_loop"
    /\ UNCHANGED <<envVars, secrets, csvVars, provisioned_users, pu0, localVars, steps,
                   calls, bodyOut, rtOut, auOut, decArgs, sleeps, fnCalls, auLog,
                   restVars>>

\* retry_on_throttle wrapper: for attempt in range(max_retries): ... return None
RetryLoop ==
    /\ pc = "retry_loop"
    /\ IF attempt < max_retries
       THEN /\ pc' = "body"
            /\ rtOut' = rtOut
       ELSE /\ pc' = "audit_exit"
            /\ rtOut' = Value(None)
    /\ UNCHANGED <<envVars, secrets, csvVars, provisioned_users, pu0, localVars, steps,
                   calls, bodyOut, auOut, decArgs, attempt, sleeps, fnCalls, auInner,
                   auLog, restVars>>

\* retry_on_throttle wrapper: return func(...) / except ClientError
RetryDecide ==
    /\ pc = "retry_decide"
    /\ LET d == RetryOnThrottle(bodyOut, attempt, max_retries, base_delay)
       IN  IF d.do = "sleep"
           THEN /\ sleeps' = Append(sleeps, d.delay)
                /\ attempt' = attempt + 1
                /\ rtOut' = rtOut
                /\ pc' = "retry_loop"
           ELSE /\ sleeps' = sleeps
                /\ attempt' = attempt
                /\ rtOut' = bodyOut
                /\ pc' = "audit_exit"
    /\ UNCHANGED <<envVars, secrets, csvVars, provisioned_users, pu0, localVars, steps,
                   calls, bodyOut, auOut, decArgs, fnCalls, auInner, auLog, restVars>>

\* audit_log wrapper: log SUCCESS and return, or log FAILED and re-raise
AuditExit ==
    /\ pc = "audit_exit"
    /\ LET a == AuditLog("CREATE_USER", rtOut)
       IN  /\ auLog' = Append(auLog, a.entry)
           /\ auOut' = a.outcome
    /\ pc' = "caller"
    /\ UNCHANGED <<envVars, secrets, csvVars, provisioned_users, pu0, localVars, steps,
                   calls, bodyOut, rtOut, decArgs, attempt, sleeps, fnCalls, auInner,
                   restVars>>


\* ------------------------------------------------------------------------
\* create_user (the body under the decorators)
\* ------------------------------------------------------------------------
BodyFrame ==
    UNCHANGED <<envVars, csvVars, pu0, rtOut, auOut, decArgs, attempt, sleeps, auInner,
                auLog, restVars>>

\* the wrapped function returns or raises `out`
Finish(out) ==
    /\ bodyOut' = out
    /\ fnCalls' = Append(fnCalls, out)
    /\ pc' = "retry_decide"

\* a step raised e: the except clauses of create_user
Fail(e, step) ==
    /\ steps' = Touch(steps, step, "failed")
    /\ Finish(CreateUserExcept(e, Request, groups_assigned, policies_attached))

\* a step completed: go on with the next statement of the try block
Completed(step) ==
    /\ steps' = Touch(steps, step, "completed")
    /\ pc' = StepAfter(step)
    /\ UNCHANGED <<bodyOut, fnCalls>>

\* if not request.validate(): return ProvisioningResult(... "Validation failed" ...)
\* groups_assigned = []; policies_attached = []
CreateUserBody ==
    /\ pc = "body"
    /\ IF ~Validate(Request)
       THEN /\ Finish(Value(ValidationFailed(Request)))
            /\ UNCHANGED <<groups_assigned, policies_attached>>
       ELSE /\ groups_assigned' = <<>>
            /\ policies_attached' = <<>>
            /\ pc' = StepOrder[1]
            /\ UNCHANGED <<bodyOut, fnCalls>>
    /\ UNCHANGED <<secrets, provisioned_users, groups, gi, policies, pi, pwRaw, password,
                   creds_location, steps, calls>>
    /\ BodyFrame

\* _create_iam_user
CreateIamUser ==
    /\ pc = "CreateIdentity"
    /\ IF demo_mode
       THEN /\ Completed("CreateIdentity")
            /\ calls' = calls
       ELSE \E res \in {Ok} \cup Rejections("CreateUser", Len(calls) + 1) :
              /\ calls' = Append(calls, Call("CreateUser", Request.username, res))
              /\ IF IsError(res)
                 THEN Fail(res, "CreateIdentity")
                 ELSE Completed("CreateIdentity")
    /\ UNCHANGED <<secrets, provisioned_users, localVars>>
    /\ BodyFrame

\* _assign_groups: one step of `for group in groups`, or the return once the
\* list iterator is exhausted
AssignGroups ==
    /\ pc = "AssignGroups"
    /\ LET gs == IF gi = 0 THEN TargetGroups(Request.department) ELSE groups
           i == IF gi = 0 THEN 1 ELSE gi
       IN  IF i > Len(gs)
           THEN /\ groups_assigned' = gs
                /\ groups' = gs
                /\ gi' = i
                /\ calls' = calls
                /\ department_groups' = department_groups
                /\ Completed("AssignGroups")
           ELSE IF demo_mode
           THEN /\ groups' = gs
                /\ gi' = i + 1
                /\ calls' = calls
                /\ department_groups' = department_groups
                /\ steps' = Touch(steps, "AssignGroups", "started")
                /\ UNCHANGED <<groups_assigned, pc, bodyOut, fnCalls>>
           ELSE \E res \in (IF gs[i] \in missing
                            THEN {ClientError("NoSuchEntity", "AddUserToGroup", Len(calls) + 1)}
                            ELSE {Ok})
                           \cup Rejections("AddUserToGroup", Len(calls) + 1) :
                  /\ calls' = Append(calls, Call("AddUserToGroup", gs[i], res))
                  /\ IF ~IsError(res)
                     THEN /\ groups' = gs
                          /\ gi' = i + 1
                          /\ department_groups' = department_groups
                          /\ steps' = Touch(steps, "AssignGroups", "started")
                          /\ UNCHANGED <<groups_assigned, pc, bodyOut, fnCalls>>
                     ELSE IF IsInstance(res, "ClientError") /\ res.code = "NoSuchEntity"
                     THEN /\ groups' = RemoveFirst(gs, gs[i])
                          /\ department_groups' =
                                TableAfterRemove(department_groups, Request.department, gs[i])
                          /\ gi' = i + 1
                          /\ steps' = Touch(steps, "AssignGroups", "started")
                          /\ UNCHANGED <<groups_assigned, pc, bodyOut, fnCalls>>
                     ELSE /\ groups' = gs
                          /\ gi' = i
                          /\ groups_assigned' = groups_assigned
                          /\ department_groups' = department_groups
                          /\ Fail(res, "AssignGroups")
    /\ UNCHANGED <<secrets, provisioned_users, policies_attached, policies, pi, pwRaw,
                   password, creds_location, role_policies>>
    /\ UNCHANGED <<envVars, csvVars, pu0, rtOut, auOut, decArgs, attempt, sleeps, auInner,
                   auLog, stubVars, unitVars, auditVars>>

\* _attach_policies: one step of `for policy_arn in policies`, or the return
AttachPolicies ==
    /\ pc = "AttachPolicies"
    /\ LET ps == IF pi = 0 THEN TargetPolicies(Request.role) ELSE policies
           i == IF pi = 0 THEN 1 ELSE pi
       IN  IF i > Len(ps)
           THEN /\ policies_attached' = ps
                /\ policies' = ps
                /\ pi' = i
                /\ calls' = calls
                /\ Completed("AttachPolicies")
           ELSE IF demo_mode
           THEN /\ policies' = ps
                /\ pi' = i + 1
                /\ calls' = calls
                /\ steps' = Touch(steps, "AttachPolicies", "started")
                /\ UNCHANGED <<policies_attached, pc, bodyOut, fnCalls>>
           ELSE \E res \in {Ok} \cup Rejections("AttachUserPolicy", Len(calls) + 1) :
                  /\ calls' = Append(calls, Call("AttachUserPolicy", ps[i], res))
                  /\ policies' = ps
                  /\ IF IsError(res)
                     THEN /\ pi' = i
                          /\ policies_attached' = policies_attached
                          /\ Fail(res, "AttachPolicies")
                     ELSE /\ pi' = i + 1
                          /\ steps' = Touch(steps, "AttachPolicies", "started")
                          /\ UNCHANGED <<policies_attached, pc, bodyOut, fnCalls>>
    /\ UNCHANGED <<secrets, provisioned_users, groups_assigned, groups, gi, pwRaw,
                   password, creds_location>>
    /\ BodyFrame

\* password = self._generate_password()
GeneratePasswordStep ==
    /\ pc = "GeneratePassword"
    /\ \E raw \in MainDraws, u \in UpperChars, l \in LowerChars, d \in DigitChars :
          /\ pwRaw' = raw
          /\ password' = GeneratePassword(raw, u, l, d)
    /\ Completed("GeneratePassword")
    /\ UNCHANGED <<secrets, provisioned_users, groups_assigned, policies_attached, groups,
                   gi, policies, pi, creds_location, calls>>
    /\ BodyFrame

\* _set_login_profile
SetLoginProfile ==
    /\ pc = "SetCredentialProfile"
    /\ IF demo_mode
       THEN /\ Completed("SetCredentialProfile")
            /\ calls' = calls
       ELSE \E res \in {Ok} \cup Rejections("CreateLoginProfile", Len(calls) + 1) :
              /\ calls' = Append(calls, Call("CreateLoginProfile", Request.username, res))
              /\ IF IsError(res)
                 THEN Fail(res, "SetCredentialProfile")
                 ELSE Completed("SetCredentialProfile")
    /\ UNCHANGED <<secrets, provisioned_users, localVars>>
    /\ BodyFrame

\* except ClientError as e: if e.response['Error']['Code'] == 'ResourceExistsException'
SecretExistsAnyClientError(c) == IsInstance(c, "ClientError")

SecretExists(c) == IsInstance(c, "ClientError") /\ c.code = "ResourceExistsException"

\* _store_credentials: create_secret, and put_secret_value when the secret exists
StoreCredentials ==
    /\ pc = "PersistSecret"
    /\ IF demo_mode
       THEN /\ creds_location' = CredsLocation(Request)
            /\ Completed("PersistSecret")
            /\ UNCHANGED <<calls, secrets>>
       ELSE \E c \in (IF SecretName(Request) \in secrets
                      THEN {ClientError("ResourceExistsException", "CreateSecret", Len(calls) + 1)}
                      ELSE {Ok})
                     \cup Rejections("CreateSecret", Len(calls) + 1) :
              LET c1 == Append(calls, Call("CreateSecret", SecretName(Request), c))
              IN  IF ~IsError(c)
                  THEN /\ calls' = c1
                       /\ secrets' = secrets \cup {SecretName(Request)}
                       /\ creds_location' = CredsLocation(Request)
                       /\ Completed("PersistSecret")
                  ELSE IF SecretExists(c)
                  THEN \E u \in {Ok} \cup Rejections("PutSecretValue", Len(calls) + 2) :
                         /\ calls' = Append(c1, Call("PutSecretValue", SecretName(Request), u))
                         /\ secrets' = secrets
                         /\ IF IsError(u)
                            THEN /\ creds_location' = creds_location
                                 /\ Fail(u, "PersistSecret")
                            ELSE /\ creds_location' = CredsLocation(Request)
                                 /\ Completed("PersistSecret")
                  ELSE /\ calls' = c1
                       /\ secrets' = secrets
                       /\ creds_location' = creds_location
                       /\ Fail(c, "PersistSecret")
    /\ UNCHANGED <<provisioned_users, groups_assigned, policies_attached, groups, gi,
                   policies, pi, pwRaw, password>>
    /\ BodyFrame

\* _send_notification
SendNotification ==
    /\ pc = "Notify"
    /\ IF demo_mode
       THEN /\ Completed("Notify")
            /\ calls' = calls
       ELSE \E res \in {Ok} \cup Rejections("Publish", Len(calls) + 1) :
              /\ calls' = Append(calls, Call("Publish", Request.username, res))
              /\ IF IsError(res)
                 THEN Fail(res, "Notify")
                 ELSE Completed("Notify")
    /\ UNCHANGED <<secrets, provisioned_users, localVars>>
    /\ BodyFrame

\* result = ProvisioningResult(success=True, ...); provisioned_users.append(result)
ReturnSuccess ==
    /\ pc = "Success"
    /\ LET result == ProvisioningResult(Request.username, TRUE,
                                        <<"User provisioned successfully">>,
                                        groups_assigned, policies_attached, creds_location)
       IN  /\ provisioned_users' = Append(provisioned_users, result)
           /\ Finish(Value(result))
    /\ UNCHANGED <<secrets, localVars, steps, calls>>
    /\ BodyFrame

Next ==
    \/ ReadRow
    \/ AuditEnter
    \/ RetryLoop
    \/ CreateUserBody
    \/ CreateIamUser
    \/ AssignGroups
    \/ AttachPolicies
    \/ GeneratePasswordStep
    \/ SetLoginProfile
    \/ StoreCredentials
    \/ SendNotification
    \/ ReturnSuccess
    \/ RetryDecide
    \/ AuditExit
    \/ AppendResult
    \/ EndOfFile
    \/ GetSummaryCall

Spec == Init /\ [][Next]_vars


\* ------------------------------------------------------------------------
\* _generate_password on its own, for every raw draw
\* ------------------------------------------------------------------------
ProvisionerIdle ==
    /\ department_groups = DEPARTMENT_GROUPS
    /\ role_policies = ROLE_POLICIES
    /\ demo_mode = TRUE
    /\ fault = None
    /\ missing = {}
    /\ secrets = {}
    /\ rows = <<>>
    /\ results = <<>>
    /\ provisioned_users = <<>>
    /\ pu0 = <<>>
    /\ groups_assigned = <<>>
    /\ policies_attached = <<>>
    /\ groups = <<>>
    /\ gi = 0
    /\ policies = <<>>
    /\ pi = 0
    /\ creds_location = None

InitPassword ==
    /\ ProvisionerIdle
    /\ pwRaw \in RawDraws
    /\ password = <<>>
    /\ pc = "generate_password"
    /\ CallInit
    /\ max_retries = DEFAULT_MAX_RETRIES
    /\ base_delay = DEFAULT_BASE_DELAY
    /\ StubIdle
    /\ UnitIdle
    /\ AuditorIdle

GeneratePasswordCall ==
    /\ pc = "generate_password"
    /\ \E u \in UpperChars, l \in LowerChars, d \in DigitChars :
          password' = GeneratePassword(pwRaw, u, l, d)
    /\ pc' = "password_returned"
    /\ UNCHANGED <<envVars, secrets, csvVars, provisioned_users, pu0, groups_assigned,
                   policies_attached, groups, gi, policies, pi, pwRaw, creds_location,
                   steps, calls, bodyOut, rtOut, auOut, decArgs, attempt, sleeps, fnCalls,
                   auInner, auLog, restVars>>

NextPassword == GeneratePasswordCall

SpecPassword == InitPassword /\ [][NextPassword]_vars

\* ------------------------------------------------------------------------
\* UserRequest.validate on its own, for requests of every shape
\* ------------------------------------------------------------------------
ValidateRequests ==
    { UserRequest(Rep("u", n), email, department, role, first_name, last_name, manager) :
        n \in 0..MaxUsernameLen,
        email \in {<<>>, <<"@">>, <<"a", "c">>, <<"a", "@", "c">>},
        department \in {"", "IT", "Ops"},
        role \in {"", "Admin"},
        first_name \in {"", "Ann"},
        last_name \in {"", "Lee"},
        manager \in {None, "bob"} }

InitValidate ==
    /\ ProvisionerIdle
    /\ pwRaw = <<>>
    /\ password = <<>>
    /\ pc = "validate"
    /\ CallInit
    /\ max_retries = DEFAULT_MAX_RETRIES
    /\ base_delay = DEFAULT_BASE_DELAY
    /\ StubIdle
    /\ summary = None
    /\ self \in ValidateRequests
    /\ valid = None
    /\ AuditorIdle

\* valid = self.validate()
ValidateCall ==
    /\ pc = "validate"
    /\ valid' = Validate(self)
    /\ pc' = "validated"
    /\ UNCHANGED <<envVars, secrets, csvVars, provisioned_users, pu0, localVars, steps,
                   calls, bodyOut, rtOut, auOut, decArgs, attempt, sleeps, fnCalls,
                   auInner, auLog, stubVars, summary, self, auditVars, tableVars>>

NextValidate == ValidateCall

SpecValidate == InitValidate /\ [][NextValidate]_vars

\* ------------------------------------------------------------------------
\* Compliance audit: inputs
\* ------------------------------------------------------------------------
Days(d) == d * TicksPerDay

AccessKey(id, status, create_date) ==
    [AccessKeyId |-> id, Status |-> status, CreateDate |-> create_date]

Policy(name) == [PolicyName |-> name]

MfaDevice == [SerialNumber |-> "mfa"]

User(name, fields) == ("UserName" :> name) @@ fields

\* DEMO_USERS, by the keys the rules read
DEMO_USERS ==
    << [UserName |-> "admin_user",
        PasswordLastUsed |-> Datetime(Days(5)),
        MFADevices |-> <<>>,
        AccessKeys |-> <<AccessKey("AKIAEXAMPLE1", "Active", Datetime(Days(200)))>>,
        AttachedPolicies |-> <<Policy("AdministratorAccess")>>],
       [UserName |-> "developer_jane",
        PasswordLastUsed |-> Datetime(Days(2)),
        MFADevices |-> <<MfaDevice>>,
        AccessKeys |-> <<AccessKey("AKIAEXAMPLE2", "Active", Datetime(Days(60)))>>,
        AttachedPolicies |-> <<>>],
       [UserName |-> "inactive_user",
        PasswordLastUsed |-> Datetime(Days(120)),
        MFADevices |-> <<>>,
        AccessKeys |-> <<AccessKey("AKIAEXAMPLE3", "Active", Datetime(Days(300)))>>,
        AttachedPolicies |-> <<Policy("PowerUserAccess")>>],
       [UserName |-> "service_account",
        PasswordLastUsed |-> NoneValue,
        MFADevices |-> <<>>,
        AccessKeys |-> <<AccessKey("AKIAEXAMPLE4", "Active", Datetime(Days(500))),
                         AccessKey("AKIAEXAMPLE5", "Active", Datetime(Days(30)))>>,
        AttachedPolicies |-> <<>>],
       [UserName |-> "compliant_user",
        PasswordLastUsed |-> Datetime(Days(1)),
        MFADevices |-> <<MfaDevice>>,
        AccessKeys |-> <<AccessKey("AKIAEXAMPLE6", "Active", Datetime(Days(30)))>>,
        AttachedPolicies |-> <<>>] >>

\* all sequences over S of length at most n
SeqsUpTo(S, n) == UNION {[1..k -> S] : k \in 0..n}

\* Users as _get_users returns them in live mode: _enrich_user_data sets
\* MFADevices, AccessKeys and AttachedPolicies; IAM leaves PasswordLastUsed
\* out for a user who never signed in.
LiveShapes ==
    { [PasswordLastUsed |-> Datetime(Days(5)), MFADevices |-> <<>>,
       AccessKeys |-> <<AccessKey("AKIA1", "Active", Datetime(Days(91)))>>,
       AttachedPolicies |-> <<Policy("AdministratorAccess")>>],
      [MFADevices |-> <<MfaDevice>>,
       AccessKeys |-> <<AccessKey("AKIA1", "Active", Datetime(Days(90) + 1)),
                        AccessKey("AKIA2", "Active", Datetime(Days(200)))>>,
       AttachedPolicies |-> <<>>],
      [PasswordLastUsed |-> Datetime(Days(46)), MFADevices |-> <<>>,
       AccessKeys |-> <<AccessKey("AKIA1", "Inactive", Datetime(Days(300)))>>,
       AttachedPolicies |-> <<Policy("ReadOnlyAccess"), Policy("PowerUserAccess")>>],
      [PasswordLastUsed |-> Datetime(Days(1)), MFADevices |-> <<MfaDevice>>,
       AccessKeys |-> <<>>, AttachedPolicies |-> <<>>],
      [PasswordLastUsed |-> IsoString(Days(45) + 1), MFADevices |-> <<>>,
       AccessKeys |-> <<AccessKey("AKIA1", "Active", IsoString(Days(90)))>>,
       AttachedPolicies |-> <<Policy("AdministratorAccess"), Policy("PowerUserAccess")>>] }

UserNames == <<"alice", "bob", "carol", "dave">>

LiveUserLists ==
    { [i \in 1..Len(shapes) |-> User(UserNames[i], shapes[i])] :
        shapes \in SeqsUpTo(LiveShapes, MaxUsers) }

\* Users as a rule may be handed when it is called on its own: every key
\* other than UserName may be missing
MfaChoices == {EmptyDict, "MFADevices" :> <<>>, "MFADevices" :> <<MfaDevice>>}

LastUsedChoices ==
    {EmptyDict} \cup
    { "PasswordLastUsed" :> t :
        t \in {NoneValue, Datetime(0), Datetime(Days(MAX_UNUSED_DAYS)),
               Datetime(Days(MAX_UNUSED_DAYS) + 1), Datetime(Days(MAX_UNUSED_DAYS + 1)),
               IsoString(Days(MAX_UNUSED_DAYS + 1))} }

KeyShapes ==
    { [Status |-> st, CreateDate |-> Datetime(a)] :
        st \in {"Active", "Inactive"},
        a \in {Days(MAX_ACCESS_KEY_AGE_DAYS), Days(MAX_ACCESS_KEY_AGE_DAYS) + 1,
               Days(MAX_ACCESS_KEY_AGE_DAYS + 1)} }
    \cup { [Status |-> "Active", CreateDate |-> IsoString(Days(MAX_ACCESS_KEY_AGE_DAYS + 1))] }

KeyId(i) == <<"AKIA", i>>

KeysChoices ==
    {EmptyDict} \cup
    { "AccessKeys" :> [i \in 1..Len(ks) |-> AccessKey(KeyId(i), ks[i].Status, ks[i].CreateDate)] :
        ks \in SeqsUpTo(KeyShapes, MaxKeys) }

PoliciesChoices ==
    {EmptyDict} \cup
    { "AttachedPolicies" :> ps :
        ps \in { <<>>, <<Policy("AdministratorAccess")>>, <<Policy("ReadOnlyAccess")>>,
                 <<Policy("AdministratorAccess"), Policy("PowerUserAccess")>>,
                 <<Policy("ReadOnlyAccess"), Policy("PowerUserAccess")>> } }

AnyUsers ==
    { User("alice", m @@ l @@ k @@ a) :
        m \in MfaChoices, l \in LastUsedChoices, k \in KeysChoices, a \in PoliciesChoices }

\* findings already in self.findings when a rule is called on its own
PriorFindings == { <<>>, CheckRootAccount(TRUE) }

\* ------------------------------------------------------------------------
\* Compliance audit: run_full_audit
\* ------------------------------------------------------------------------
ProvisionerVars ==
    <<envVars, secrets, csvVars, provisioned_users, pu0, localVars, steps, calls,
      bodyOut, rtOut, auOut, decArgs, attempt, sleeps, fnCalls, auInner, auLog,
      stubVars, unitVars, tableVars>>

InitAudit ==
    /\ ProvisionerIdle
    /\ pwRaw = <<>>
    /\ password = <<>>
    /\ CallInit
    /\ max_retries = DEFAULT_MAX_RETRIES
    /\ base_delay = DEFAULT_BASE_DELAY
    /\ StubIdle
    /\ UnitIdle
    /\ audit_demo_mode \in BOOLEAN
    /\ users = <<>>
    /\ ui = 0
    /\ findings = <<>>
    /\ before = <<>>
    /\ report = None
    /\ caller = "run_full_audit"
    /\ runs = 0
    /\ pc = "run_full_audit"

\* self.findings = [] at the start of run_full_audit, whatever the list held
ResetFindingsKeepsOld(old) == old

ResetFindings(old) == <<>>

RunFullAudit ==
    /\ pc = "run_full_audit"
    /\ findings' = ResetFindings(findings)
    /\ runs' = runs + 1
    /\ pc' = "get_users"
    /\ UNCHANGED <<ProvisionerVars, audit_demo_mode, users, ui, before, report, caller>>

\* the holder of the auditor calls run_full_audit once more
RunAgain ==
    /\ pc = "audit_returned"
    /\ runs < MaxRuns
    /\ pc' = "run_full_audit"
    /\ UNCHANGED <<ProvisionerVars, auditVars>>

\* users = self._get_users(): DEMO_USERS, or the users IAM lists, enriched;
\* an error of an IAM call is not caught and leaves run_full_audit
GetUsers ==
    /\ pc = "get_users"
    /\ IF audit_demo_mode
       THEN /\ users' = DEMO_USERS
            /\ ui' = 1
            /\ pc' = LoopHead(1, Len(DEMO_USERS))
       ELSE \/ \E us \in LiveUserLists :
                 /\ users' = us
                 /\ ui' = 1
                 /\ pc' = LoopHead(1, Len(us))
            \/ /\ pc' = "audit_raised"
               /\ UNCHANGED <<users, ui>>
    /\ UNCHANGED <<ProvisionerVars, runs, audit_demo_mode, findings, before, report, caller>>

\* where a rule called on its own returns to
Returned(rule) ==
    CASE rule = "check_mfa_enabled" -> "check_mfa_enabled_returned"
      [] rule = "check_access_key_age" -> "check_access_key_age_returned"
      [] rule = "check_unused_credentials" -> "check_unused_credentials_returned"
      [] rule = "check_multiple_access_keys" -> "check_multiple_access_keys_returned"
      [] rule = "check_direct_policy_attachment" -> "check_direct_policy_attachment_returned"
      [] rule = "check_admin_privileges" -> "check_admin_privileges_returned"

\* one rule applied to users[ui]: it appends `found` to self.findings
ApplyRule(rule, found) ==
    /\ pc = rule
    /\ before' = findings
    /\ findings' = findings \o found
    /\ IF caller = "run_full_audit"
       THEN /\ pc' = RuleAfter(rule, ui, Len(users), Len(found) > 0)
            /\ ui' = IF pc' \in {RuleOrder[1], "check_password_policy"} THEN ui + 1 ELSE ui
       ELSE /\ pc' = Returned(rule)
            /\ ui' = ui
    /\ UNCHANGED <<ProvisionerVars, runs, audit_demo_mode, users, report, caller>>

CheckMfaEnabledCall ==
    ApplyRule("check_mfa_enabled", CheckMfaEnabled(users[ui]))

CheckAccessKeyAgeCall ==
    ApplyRule("check_access_key_age", CheckAccessKeyAge(users[ui]))

CheckUnusedCredentialsCall ==
    ApplyRule("check_unused_credentials", CheckUnusedCredentials(users[ui]))

CheckMultipleAccessKeysCall ==
    ApplyRule("check_multiple_access_keys", CheckMultipleAccessKeys(users[ui]))

CheckDirectPolicyAttachmentCall ==
    ApplyRule("check_direct_policy_attachment", CheckDirectPolicyAttachment(users[ui]))

CheckAdminPrivilegesCall ==
    ApplyRule("check_admin_privileges", CheckAdminPrivileges(users[ui]))

CheckPasswordPolicyCall ==
    /\ pc = "check_password_policy"
    /\ before' = findings
    /\ findings' = findings \o CheckPasswordPolicy(audit_demo_mode)
    /\ pc' = "check_root_account"
    /\ UNCHANGED <<ProvisionerVars, runs, audit_demo_mode, users, ui, report, caller>>

CheckRootAccountCall ==
    /\ pc = "check_root_account"
    /\ before' = findings
    /\ findings' = findings \o CheckRootAccount(audit_demo_mode)
    /\ pc' = "generate_report"
    /\ UNCHANGED <<ProvisionerVars, runs, audit_demo_mode, users, ui, report, caller>>

\* return self._generate_report(len(users))
GenerateReportCall ==
    /\ pc = "generate_report"
    /\ report' = GenerateReport(findings, Len(users))
    /\ pc' = "audit_returned"
    /\ UNCHANGED <<ProvisionerVars, runs, audit_demo_mode, users, ui, findings, before, caller>>

NextAudit ==
    \/ RunFullAudit
    \/ GetUsers
    \/ CheckMfaEnabledCall
    \/ CheckAccessKeyAgeCall
    \/ CheckUnusedCredentialsCall
    \/ CheckMultipleAccessKeysCall
    \/ CheckDirectPolicyAttachmentCall
    \/ CheckAdminPrivilegesCall
    \/ CheckPasswordPolicyCall
    \/ CheckRootAccountCall
    \/ GenerateReportCall
    \/ RunAgain

SpecAudit == InitAudit /\ [][NextAudit]_vars

\* ------------------------------------------------------------------------
\* Compliance audit: one rule called on its own with one user
\* ------------------------------------------------------------------------
InitRules ==
    /\ ProvisionerIdle
    /\ pwRaw = <<>>
    /\ password = <<>>
    /\ CallInit
    /\ max_retries = DEFAULT_MAX_RETRIES
    /\ base_delay = DEFAULT_BASE_DELAY
    /\ StubIdle
    /\ UnitIdle
    /\ audit_demo_mode = TRUE
    /\ \E u \in AnyUsers : users = <<u>>
    /\ ui = 1
    /\ findings \in PriorFindings
    /\ before = findings
    /\ report = None
    /\ caller = "direct"
    /\ runs = 0
    /\ pc \in Range(RuleOrder)

NextRules ==
    \/ CheckMfaEnabledCall
    \/ CheckAccessKeyAgeCall
    \/ CheckUnusedCredentialsCall
    \/ CheckMultipleAccessKeysCall
    \/ CheckDirectPolicyAttachmentCall
    \/ CheckAdminPrivilegesCall

SpecRules == InitRules /\ [][NextRules]_vars

\* ------------------------------------------------------------------------
\* Compliance audit: _generate_report called on a list of findings
\* ------------------------------------------------------------------------
Severities == {"CRITICAL", "HIGH", "MEDIUM", "LOW", "INFO"}

ComplianceStatuses == {"COMPLIANT", "NON_COMPLIANT", "N/A"}

\* the findings a caller may have put into self.findings
AnyFindings ==
    { Finding("TEST-1", "Test", "User", <<"user1">>, sev, st, EmptyDict) :
        sev \in Severities, st \in ComplianceStatuses }

InitReport ==
    /\ ProvisionerIdle
    /\ pwRaw = <<>>
    /\ password = <<>>
    /\ CallInit
    /\ max_retries = DEFAULT_MAX_RETRIES
    /\ base_delay = DEFAULT_BASE_DELAY
    /\ StubIdle
    /\ UnitIdle
    /\ audit_demo_mode = TRUE
    /\ users \in {<<>>, DEMO_USERS}
    /\ ui = 0
    /\ findings \in SeqsUpTo(AnyFindings, MaxFindings)
    /\ before = findings
    /\ report = None
    /\ caller = "direct"
    /\ runs = 0
    /\ pc = "generate_report"

NextReport ==
    \/ GenerateReportCall

SpecReport == InitReport /\ [][NextReport]_vars

\* ------------------------------------------------------------------------
\* The decorators around a stub function: audit_log(retry_on_throttle(N, d)(f))
\* where f is rejected with a throttling error on its first fnK calls and
\* then returns a value or raises another error
\* ------------------------------------------------------------------------
StubThen == {"value"} \cup (FaultKinds \ ThrottleCodes)

StubValue == "v"

InitDecorators ==
    /\ ProvisionerIdle
    /\ pwRaw = <<>>
    /\ password = <<>>
    /\ pc = "call"
    /\ CallInit
    /\ max_retries \in 0..MaxRetriesArg
    /\ base_delay \in 1..MaxBaseDelay
    /\ fnK \in 0..MaxThrottled
    /\ fnCode \in ThrottleCodes
    /\ fnThen \in StubThen
    /\ UnitIdle
    /\ AuditorIdle

\* one call of the stub function
StubCall ==
    /\ pc = "body"
    /\ LET n == Len(fnCalls) + 1
       IN  Finish(IF n <= fnK
                  THEN Raised(ClientError(fnCode, "Stub", n))
                  ELSE IF fnThen = "value"
                  THEN Value(StubValue)
                  ELSE Raised(MakeError(fnThen, "Stub", n)))
    /\ UNCHANGED <<secrets, provisioned_users, localVars, steps, calls>>
    /\ BodyFrame

NextDecorators ==
    \/ AuditEnter
    \/ RetryLoop
    \/ StubCall
    \/ RetryDecide
    \/ AuditExit

SpecDecorators == InitDecorators /\ [][NextDecorators]_vars


\* ------------------------------------------------------------------------
\* Properties of create_user and provision_from_csv (specification Spec)
\* ------------------------------------------------------------------------
InCall == pc \notin {"csv_loop", "returned", "summarised", "crashed"}

BodyReturned == pc \in {"retry_decide", "audit_exit", "caller"}

\* the collaborator calls of the current request that succeeded, by operation
Succeeded(op) == {calls[i].arg : i \in {j \in 1..Len(calls) : calls[j].op = op /\ ~IsError(calls[j].result)}}

StepIndex(name) == CHOOSE i \in 1..Len(StepOrder) : StepOrder[i] = name

\* the step a collaborator operation belongs to
StepOfOp(op) ==
    CASE op = "CreateUser" -> 1
      [] op = "AddUserToGroup" -> 2
      [] op = "AttachUserPolicy" -> 3
      [] op = "CreateLoginProfile" -> 5
      [] op \in {"CreateSecret", "PutSecretValue"} -> 6
      [] op = "Publish" -> 7

\* C1: a request that fails validation gets the result (success=False,
\* "Validation failed", no groups, no policies); no step of create_user runs,
\* no collaborator is called and provisioned_users stays as it was.
C1_ValidationShortCircuits ==
    (Len(rows) > 0 /\ ~Validate(Request)) =>
        /\ InCall =>
              /\ steps = <<>>
              /\ calls = <<>>
              /\ provisioned_users = pu0
              /\ pc \notin Range(StepOrder) \cup {"Success"}
        /\ pc = "caller" =>
              /\ auOut.kind = "value"
              /\ auOut.value.username = Request.username
              /\ auOut.value.success = FALSE
              /\ auOut.value.message = <<"Validation failed">>
              /\ auOut.value.groups_assigned = <<>>
              /\ auOut.value.policies_attached = <<>>
        /\ (pc = "csv_loop" /\ Len(results) = Len(rows)) =>
              /\ results[Len(results)].success = FALSE
              /\ results[Len(results)].message = <<"Validation failed">>
              /\ results[Len(results)].groups_assigned = <<>>
              /\ results[Len(results)].policies_attached = <<>>
              /\ provisioned_users = pu0

C1_Witness ==
    /\ pc = "caller"
    /\ Len(rows) = 2
    /\ ~Validate(Request)
    /\ Request.department = "Finance"
    /\ Len(provisioned_users) = 1
    /\ auOut.kind = "value"
    /\ auOut.value.message = <<"Validation failed">>

\* C2: the steps of create_user run in the order CreateIdentity, AssignGroups,
\* AttachPolicies, GeneratePassword, SetCredentialProfile, PersistSecret,
\* Notify: the steps run so far are a prefix of that order, every step before
\* the last one run has completed, a failed step is the last one run (the
\* collaborator call that failed it is the last call made), and the
\* collaborator calls follow the same order.
C2_StepsInOrder ==
    /\ Len(steps) <= Len(StepOrder)
    /\ \A i \in 1..Len(steps) :
          /\ steps[i].step = StepOrder[i]
          /\ i < Len(steps) => steps[i].status = "completed"
    /\ \A i \in 1..Len(calls) : \A j \in 1..Len(calls) :
          i < j => StepOfOp(calls[i].op) <= StepOfOp(calls[j].op)
    /\ \A i \in 1..Len(calls) : StepOfOp(calls[i].op) <= Len(steps)
    /\ (Len(steps) > 0 /\ steps[Len(steps)].status = "failed") =>
          /\ Len(calls) > 0
          /\ IsError(calls[Len(calls)].result)
          /\ StepOfOp(calls[Len(calls)].op) = Len(steps)
    /\ pc \in Range(StepOrder) =>
          /\ \A i \in 1..Len(steps) : steps[i].status # "failed"
          /\ StepIndex(pc) \in {Len(steps), Len(steps) + 1}
          /\ StepIndex(pc) = Len(steps) => steps[Len(steps)].status = "started"
    /\ (BodyReturned /\ bodyOut.kind = "value" /\ bodyOut.value.success) =>
          /\ Len(steps) = Len(StepOrder)
          /\ \A i \in 1..Len(steps) : steps[i].status = "completed"
    /\ (BodyReturned /\ Validate(Request)
          /\ ~(bodyOut.kind = "value" /\ bodyOut.value.success)) =>
          /\ Len(steps) > 0
          /\ steps[Len(steps)].status = "failed"

C2_Witness ==
    /\ pc = "caller"
    /\ Len(steps) = 6
    /\ steps[6].status = "failed"
    /\ Len(calls) >= 6
    /\ auOut.kind = "value"
    /\ ~auOut.value.success

\* C3 (as claimed): a failure result after validation lists in
\* groups_assigned every group added and in policies_attached every policy
\* attached for the user before the failure.
C3_PartialProgressReported ==
    (pc = "caller" /\ Validate(Request) /\ auOut.kind = "value" /\ ~auOut.value.success) =>
        /\ Succeeded("AddUserToGroup") \subseteq Range(auOut.value.groups_assigned)
        /\ Succeeded("AttachUserPolicy") \subseteq Range(auOut.value.policies_attached)

\* C4 (as claimed): in live mode the list returned by _assign_groups holds
\* none of the groups the collaborator reports as non-existent.
C4_MissingGroupsDropped ==
    (~demo_mode /\ Len(steps) >= 2 /\ steps[2].status = "completed") =>
        Range(groups_assigned) \cap missing = {}


\* C8 (as claimed): when a collaborator call of create_user is rejected with
\* a throttling error, the throttling failure is surfaced as a failure result
\* only after DEFAULT_MAX_RETRIES attempts (with a backoff sleep between them).
C8_ThrottlingRetriedThenSurfaced ==
    (/\ pc = "caller"
     /\ \E i \in 1..Len(calls) :
           /\ IsInstance(calls[i].result, "ClientError")
           /\ calls[i].result.code \in ThrottleCodes
     /\ auOut.kind = "value"
     /\ ~auOut.value.success) =>
        /\ Len(fnCalls) = DEFAULT_MAX_RETRIES
        /\ Len(sleeps) = DEFAULT_MAX_RETRIES - 1

NumFailed(seq) == Cardinality({i \in 1..Len(seq) : ~seq[i].success})

AllRowsValid == \A i \in 1..Len(rows) : Validate(rows[i])

\* C11 (as claimed): after the create_user calls of a batch, provisioned_users
\* holds one result per request in call order, so get_summary reports
\* total_processed equal to the number of requests processed, failed equal to
\* the number of requests whose result has success=False, and lists each of
\* those requests in users_failed.
C11_SummaryCountsEveryRequest ==
    pc = "summarised" =>
        /\ provisioned_users = results
        /\ summary.total_processed = Len(rows)
        /\ summary.failed = NumFailed(results)
        /\ \A i \in 1..Len(results) :
              ~results[i].success =>
                  \E j \in 1..Len(summary.users_failed) :
                      summary.users_failed[j].username = results[i].username

\* C12: in demo mode create_user returns, for every valid request, success
\* with the default group followed by the groups mapped to the department
\* (the default group alone for an unknown department), the policies mapped
\* to the role (none for an unknown role) and the location
\* secretsmanager:iam-credentials/<department>/<username>.
C12_DemoModeResult ==
    (demo_mode /\ pc = "caller" /\ Validate(Request)) =>
        /\ auOut.kind = "value"
        /\ auOut.value.username = Request.username
        /\ auOut.value.success = TRUE
        /\ auOut.value.groups_assigned =
              <<"StandardUsers">> \o
                  (IF Request.department \in DOMAIN DEPARTMENT_GROUPS
                   THEN DEPARTMENT_GROUPS[Request.department] ELSE <<>>)
        /\ auOut.value.policies_attached =
              (IF Request.role \in DOMAIN ROLE_POLICIES
               THEN ROLE_POLICIES[Request.role] ELSE <<>>)
        /\ auOut.value.credentials_location =
              <<"secretsmanager:", "iam-credentials/", Request.department, "/",
                Request.username>>

C12_Witness ==
    /\ demo_mode
    /\ pc = "caller"
    /\ Len(rows) = 2
    /\ Validate(Request)
    /\ Request.department = "Ops"
    /\ rows[1].department = "Finance"
    /\ results[1].success
    /\ results[1].groups_assigned = <<"StandardUsers", "Finance-Users", "Billing-ReadOnly">>
    /\ auOut.kind = "value"
    /\ auOut.value.groups_assigned = <<"StandardUsers">>
    /\ auOut.value.policies_attached = <<>>

\* C13: on a fresh provisioner in demo mode, after n create_user calls with
\* valid requests get_summary reports total_processed = n, successful = n,
\* failed = 0 and the success rate 100.0% when n >= 1, 0.0% when n = 0.
C13_DemoSummary ==
    (demo_mode /\ pc = "summarised" /\ AllRowsValid) =>
        /\ summary.total_processed = Len(rows)
        /\ summary.successful = Len(rows)
        /\ summary.failed = 0
        /\ summary.success_rate =
              IF Len(rows) >= 1 THEN <<100, ".", 0, "%">> ELSE <<0, ".", 0, "%">>

C13_Witness ==
    /\ demo_mode
    /\ pc = "summarised"
    /\ Len(rows) = 2
    /\ AllRowsValid
    /\ summary.successful = 2
    /\ summary.success_rate = <<100, ".", 0, "%">>

\* the collaborator calls of the current request made by _store_credentials
SecretCalls == SelectSeq(calls, LAMBDA c : c.op \in {"CreateSecret", "PutSecretValue"})

PersistSecretDone == Len(steps) >= 6 /\ steps[6].status \in {"completed", "failed"}

\* C15: in live mode, when create_secret is rejected because the secret
\* exists, _store_credentials calls put_secret_value once and returns the
\* location secretsmanager:iam-credentials/<department>/<username>; any other
\* rejection of create_secret (no update is tried then) and any rejection of
\* put_secret_value fails the step.
C15_ExistingSecretUpdated ==
    (~demo_mode /\ PersistSecretDone) =>
        /\ Len(SecretCalls) \in {1, 2}
        /\ SecretCalls[1].op = "CreateSecret"
        /\ LET c == SecretCalls[1].result
               exists == c.cls = "ClientError" /\ c.code = "ResourceExistsException"
           IN  /\ exists =>
                     /\ Len(SecretCalls) = 2
                     /\ SecretCalls[2].op = "PutSecretValue"
                     /\ SecretCalls[2].arg = SecretCalls[1].arg
                     /\ IF IsError(SecretCalls[2].result)
                        THEN steps[6].status = "failed"
                        ELSE /\ steps[6].status = "completed"
                             /\ creds_location =
                                   <<"secretsmanager:", "iam-credentials/",
                                     Request.department, "/", Request.username>>
               /\ ~exists =>
                     /\ Len(SecretCalls) = 1
                     /\ steps[6].status = IF IsError(c) THEN "failed" ELSE "completed"
        /\ (steps[6].status = "failed" /\ BodyReturned) =>
              /\ bodyOut.kind = "value"
              /\ ~bodyOut.value.success
              /\ bodyOut.value.credentials_location = None

C15_Witness ==
    /\ ~demo_mode
    /\ Len(steps) = 7
    /\ steps[6].status = "completed"
    /\ Len(SecretCalls) = 2
    /\ SecretCalls[1].result.code = "ResourceExistsException"
    /\ ~IsError(SecretCalls[2].result)
    /\ creds_location = CredsLocation(Request)

\* C16 (as claimed): every failure of a step is returned as a result with
\* success=False, the eight failure classes have eight distinct messages,
\* and a failure of parameter validation gets the message that starts with
\* "Parameter validation error".
C16_FailureMessagesDistinct ==
    (pc = "caller" /\ Len(calls) > 0 /\ IsError(calls[Len(calls)].result)
        /\ Len(steps) > 0 /\ steps[Len(steps)].status = "failed") =>
        /\ auOut.kind = "value"
        /\ ~auOut.value.success
        /\ LET e == calls[Len(calls)].result
               head == auOut.value.message[1]
           IN  /\ e.cls = "ParamValidationError" => head = "Parameter validation error: "
               /\ e.cls = "BotoCoreError" => head = "AWS connection error: "
               /\ e.cls = "Exception" => head = "Unexpected error: "
               /\ head = "AWS connection error: " => e.cls = "BotoCoreError"

\* ------------------------------------------------------------------------
\* Properties of UserRequest.validate (specification SpecValidate)
\* ------------------------------------------------------------------------
\* C14: validate() returns true exactly when username, email, department
\* and role are all non-empty, the email contains "@" and the length of the
\* username is between 3 and 64 inclusive; the result is a function of those
\* four fields only (first name, last name and manager do not affect it).
C14_ValidateExact ==
    pc = "validated" =>
        /\ valid \in BOOLEAN
        /\ valid <=>
              /\ self.username # <<>>
              /\ self.email # <<>>
              /\ self.department # ""
              /\ self.role # ""
              /\ \E i \in 1..Len(self.email) : self.email[i] = "@"
              /\ Len(self.username) >= 3
              /\ Len(self.username) <= 64
        /\ \A o \in ValidateRequests :
              (/\ o.username = self.username
               /\ o.email = self.email
               /\ o.department = self.department
               /\ o.role = self.role) => Validate(o) = valid

C14_Witness ==
    /\ pc = "validated"
    /\ valid = TRUE
    /\ Len(self.username) = 64
    /\ self.first_name = ""
    /\ self.last_name = ""
    /\ self.manager = None

\* ------------------------------------------------------------------------
\* Properties of the per-identity rules (specification SpecRules)
\* ------------------------------------------------------------------------
\* the findings the rule that has just returned appended
Appended == SubSeq(findings, Len(before) + 1, Len(findings))

AppendedOnly == Len(findings) >= Len(before) /\ SubSeq(findings, 1, Len(before)) = before

HasKey(u, key) == key \in DOMAIN u

\* C17: _check_mfa_enabled appends exactly one finding (CIS-1.2, HIGH,
\* NON_COMPLIANT, for the user) when the user has a recorded password-use
\* time and no MFA device, and nothing when the user has an MFA device or
\* has no recorded password-use time.
C17_MfaRule ==
    pc = "check_mfa_enabled_returned" =>
        LET u == users[ui]
            recorded == HasKey(u, "PasswordLastUsed") /\ u.PasswordLastUsed # NoneValue
            devices == IF HasKey(u, "MFADevices") THEN Len(u.MFADevices) ELSE 0
        IN  /\ AppendedOnly
            /\ IF recorded /\ devices = 0
               THEN /\ Len(Appended) = 1
                    /\ Appended[1].rule_id = "CIS-1.2"
                    /\ Appended[1].severity = "HIGH"
                    /\ Appended[1].status = "NON_COMPLIANT"
                    /\ Appended[1].resource_id = <<u.UserName>>
               ELSE Appended = <<>>

C17_Witness ==
    /\ pc = "check_mfa_enabled_returned"
    /\ before # <<>>
    /\ Len(findings) = Len(before) + 1
    /\ findings[Len(findings)].rule_id = "CIS-1.2"
    /\ HasKey(users[ui], "MFADevices")
    /\ ~HasKey(users[ui], "AccessKeys")

\* the positions of the access keys that are Active and at least 91 full
\* days old
OffendingKeys(u) ==
    IF HasKey(u, "AccessKeys")
    THEN {i \in 1..Len(u.AccessKeys) :
             /\ u.AccessKeys[i].Status = "Active"
             /\ u.AccessKeys[i].CreateDate.age >= 91 * TicksPerDay}
    ELSE {}

\* C18: _check_access_key_age appends one MEDIUM CIS-1.4 finding for each
\* access key that is Active and whose age in whole days is more than 90,
\* in the order of the keys, and none for a key of 90 days (and a fraction)
\* or less or for an inactive key: as many findings as offending keys.
C18_KeyAgeRule ==
    pc = "check_access_key_age_returned" =>
        LET u == users[ui]
        IN  /\ AppendedOnly
            /\ Len(Appended) = Cardinality(OffendingKeys(u))
            /\ \A j \in 1..Len(Appended) :
                  /\ Appended[j].rule_id = "CIS-1.4"
                  /\ Appended[j].severity = "MEDIUM"
                  /\ Appended[j].status = "NON_COMPLIANT"
                  /\ \E i \in OffendingKeys(u) :
                        /\ Appended[j].resource_id = <<u.UserName, "/", u.AccessKeys[i].AccessKeyId>>
                        /\ Cardinality({k \in OffendingKeys(u) : k < i}) = j - 1

C18_Witness ==
    /\ pc = "check_access_key_age_returned"
    /\ HasKey(users[ui], "AccessKeys")
    /\ Len(users[ui].AccessKeys) = 2
    /\ users[ui].AccessKeys[1] = AccessKey(KeyId(1), "Active", Datetime(90 * TicksPerDay + 1))
    /\ users[ui].AccessKeys[2] = AccessKey(KeyId(2), "Active", Datetime(91 * TicksPerDay))
    /\ Len(findings) = Len(before) + 1
    /\ findings[Len(findings)].resource_id = <<"alice", "/", KeyId(2)>>

RuleFindings(rule, u) ==
    CASE rule = "check_mfa_enabled" -> CheckMfaEnabled(u)
      [] rule = "check_access_key_age" -> CheckAccessKeyAge(u)
      [] rule = "check_unused_credentials" -> CheckUnusedCredentials(u)
      [] rule = "check_multiple_access_keys" -> CheckMultipleAccessKeys(u)
      [] rule = "check_direct_policy_attachment" -> CheckDirectPolicyAttachment(u)
      [] rule = "check_admin_privileges" -> CheckAdminPrivileges(u)

\* the findings of the first k rules for a user, in the order MFA, key
\* rotation, unused credentials, multiple keys, direct policy, admin privilege
RECURSIVE RulesUpTo(_, _)
RulesUpTo(u, k) ==
    IF k = 0 THEN <<>> ELSE RulesUpTo(u, k - 1) \o RuleFindings(RuleOrder[k], u)

\* the findings of the first n users, in the order of the users
RECURSIVE UsersUpTo(_, _)
UsersUpTo(us, n) ==
    IF n = 0 THEN <<>> ELSE UsersUpTo(us, n - 1) \o RulesUpTo(us[n], Len(RuleOrder))

RuleIndex(rule) == CHOOSE k \in 1..Len(RuleOrder) : RuleOrder[k] = rule

\* C20: in run_full_audit every rule is applied to every user whatever the
\* other rules found: the findings are, user after user in input order, what
\* the six rules yield for the user in isolation, in the order MFA, key
\* rotation, unused credentials, multiple keys, direct policy, admin
\* privilege, and the account-level findings follow those of all users.
C20_AllRulesEveryIdentity ==
    /\ pc \in Range(RuleOrder) =>
          /\ ui \in 1..Len(users)
          /\ findings = UsersUpTo(users, ui - 1) \o RulesUpTo(users[ui], RuleIndex(pc) - 1)
    /\ pc = "check_password_policy" =>
          findings = UsersUpTo(users, Len(users))
    /\ pc \in {"generate_report", "audit_returned"} =>
          /\ Len(findings) >= Len(UsersUpTo(users, Len(users)))
          /\ SubSeq(findings, 1, Len(UsersUpTo(users, Len(users)))) =
                UsersUpTo(users, Len(users))
          /\ \A j \in (Len(UsersUpTo(users, Len(users))) + 1)..Len(findings) :
                findings[j].resource_type \in {"Account Password Policy", "Root Account"}
    /\ pc = "audit_returned" => report.findings = findings

C20_Witness ==
    /\ pc = "audit_returned"
    /\ ~audit_demo_mode
    /\ Len(users) = 2
    /\ Len(report.findings) = 6
    /\ report.findings[1].rule_id = "CIS-1.2"
    /\ report.findings[2].rule_id = "BP-2"
    /\ report.findings[3].rule_id = "CIS-1.16"
    /\ report.findings[4].rule_id = "CIS-1.16"
    /\ report.findings[4].resource_id = <<"alice">>
    /\ report.findings[5].rule_id = "CIS-1.4"
    /\ report.findings[5].resource_id = <<"bob", "/", "AKIA2">>
    /\ report.findings[6].rule_id = "BP-1"

\* the number of findings of a rule in a list of findings
CountRule(fs, rule_id) == Cardinality({j \in 1..Len(fs) : fs[j].rule_id = rule_id})

\* C21: in every audit run, whatever the number of users (zero included), the
\* report holds at most one finding of the password reuse prevention check
\* (CIS-1.9) and at most one of the root account usage check (CIS-1.1).
C21_AccountRulesAtMostOnce ==
    /\ CountRule(findings, "CIS-1.9") <= 1
    /\ CountRule(findings, "CIS-1.1") <= 1
    /\ pc = "audit_returned" =>
          /\ CountRule(report.findings, "CIS-1.9") = (IF audit_demo_mode THEN 1 ELSE 0)
          /\ CountRule(report.findings, "CIS-1.1") = (IF audit_demo_mode THEN 1 ELSE 0)

C21_Witness ==
    /\ pc = "audit_returned"
    /\ runs = 2
    /\ audit_demo_mode
    /\ Len(users) = 5
    /\ CountRule(report.findings, "CIS-1.9") = 1
    /\ CountRule(report.findings, "CIS-1.1") = 1

\* the number of findings of a list that satisfy a status / a severity
CountStatus(fs, st) == Cardinality({j \in 1..Len(fs) : fs[j].status = st})

CountSev(fs, sev) == Cardinality({j \in 1..Len(fs) : fs[j].severity = sev})

\* C22: for every list of findings, _generate_report sets compliance_score to
\* (total_findings - non_compliant_count) / max(total_findings, 1) * 100, every
\* finding (compliant, informational, not applicable) counting in the
\* denominator; one non-compliant and one compliant finding give exactly 50.0.
C22_ComplianceScore ==
    pc = "audit_returned" =>
        LET total == Len(findings)
            nc == CountStatus(findings, "NON_COMPLIANT")
            score == report.compliance_score
        IN  /\ score.den = (IF total >= 1 THEN total ELSE 1)
            /\ score.num = (total - nc) * 100
            /\ (total = 2 /\ nc = 1 /\ CountStatus(findings, "COMPLIANT") = 1)
                  => score.num * 10 = 500 * score.den
            /\ total = 0 => score.num = 0

C22_Witness ==
    /\ pc = "audit_returned"
    /\ Len(findings) = 2
    /\ findings[1].status = "NON_COMPLIANT" /\ findings[1].severity = "HIGH"
    /\ findings[2].status = "COMPLIANT" /\ findings[2].severity = "INFO"
    /\ report.compliance_score = [num |-> 100, den |-> 2]

\* where a rule called on its own is once it has returned
RuleReturned == { Returned(RuleOrder[k]) : k \in 1..Len(RuleOrder) }

\* C23: for a user record that carries only its name (no MFADevices,
\* AccessKeys, AttachedPolicies or PasswordLastUsed key), each of the six
\* per-identity rules returns (it raises nothing) and appends no finding.
C23_BareIdentityNoFinding ==
    (pc \in RuleReturned /\ DOMAIN users[ui] = {"UserName"}) =>
        findings = before

C23_Witness ==
    /\ pc = "check_unused_credentials_returned"
    /\ DOMAIN users[ui] = {"UserName"}
    /\ before # <<>>
    /\ findings = before

\* C24: every create_user invocation leaves exactly one outcome entry for
\* CREATE_USER in the audit trail, and the entry is a FAILED entry exactly
\* when the provisioning did not succeed (SUCCESS only when it succeeded).
C24_AuditEntryTellsOutcome ==
    /\ Len(auLog) = Len(results) + (IF pc = "caller" THEN 1 ELSE 0)
    /\ \A i \in 1..Len(results) :
          /\ auLog[i].action = "CREATE_USER"
          /\ auLog[i].status = (IF results[i].success THEN "SUCCESS" ELSE "FAILED")

\* the arguments of the collaborator calls of the current request, by operation
Attempted(op) == {calls[i].arg : i \in {j \in 1..Len(calls) : calls[j].op = op}}

\* C25: in live mode, whichever target groups exist, add_user_to_group is
\* called for every target group (the default group and the department's
\* groups), and every group of the list _assign_groups returns is one whose
\* add_user_to_group call succeeded.
C25_EveryTargetGroupAttempted ==
    (~demo_mode /\ Len(steps) >= 2 /\ steps[2].status = "completed") =>
        /\ Range(TargetGroups(Request.department)) \subseteq Attempted("AddUserToGroup")
        /\ Range(groups_assigned) \subseteq Succeeded("AddUserToGroup")

\* C26: after any sequence of create_user calls, in either mode, also
\* after calls in which non-existent groups were removed from the list of
\* groups, the department-to-groups table and the role-to-policies table
\* hold exactly their initial contents.
C26_TablesNeverMutated ==
    /\ department_groups = DEPARTMENT_GROUPS
    /\ role_policies = ROLE_POLICIES

\* a second create_user call, after a call for the Finance department in
\* which a department group did not exist and was removed from the list
C26_Witness ==
    /\ pc = "caller"
    /\ Len(results) = 1
    /\ results[1].success
    /\ rows[1].department = "Finance"
    /\ "Finance-Users" \notin Range(results[1].groups_assigned)
    /\ "Finance-Users" \in missing
    /\ auOut.value.success
    /\ department_groups["Finance"] = <<"Finance-Users", "Billing-ReadOnly">>

\* C27: every AuditReport has total_findings equal to the length of its
\* findings list, critical / high / medium / low counts equal to the number
\* of findings of that severity, the four counts summing to total_findings
\* minus the number of INFO findings, and total_users equal to the number of
\* identities scanned.
C27_ReportCounts ==
    pc = "audit_returned" =>
        /\ report.findings = findings
        /\ report.total_findings = Len(report.findings)
        /\ report.critical_count = CountSev(report.findings, "CRITICAL")
        /\ report.high_count = CountSev(report.findings, "HIGH")
        /\ report.medium_count = CountSev(report.findings, "MEDIUM")
        /\ report.low_count = CountSev(report.findings, "LOW")
        /\ report.critical_count + report.high_count + report.medium_count
             + report.low_count
             = report.total_findings - CountSev(report.findings, "INFO")
        /\ report.total_users = Len(users)

C27_Witness ==
    /\ pc = "audit_returned"
    /\ audit_demo_mode
    /\ report.total_users = 5
    /\ report.critical_count >= 1
    /\ report.high_count >= 1
    /\ report.medium_count >= 1
    /\ report.low_count >= 1
    /\ CountSev(report.findings, "INFO") = 1
    /\ report.total_findings > 5

\* what a result says of where the credentials are, for the request it is for
LocationTellsSuccess(res, req) ==
    IF res.success
    THEN /\ Len(res.credentials_location) > 0
         /\ res.credentials_location =
               <<"secretsmanager:", "iam-credentials/", req.department, "/", req.username>>
    ELSE res.credentials_location = None

\* C28: a result returned by create_user has a non-empty credentials_location
\* exactly when success is True; every failure result has credentials_location
\* None, also when the step that failed is the notification and the secret,
\* the login profile, the user, its groups and its policies are already made.
C28_LocationIffSuccess ==
    /\ pc = "caller" => LocationTellsSuccess(auOut.value, Request)
    /\ \A i \in 1..Len(results) : LocationTellsSuccess(results[i], rows[i])

C28_Witness ==
    /\ pc = "caller"
    /\ ~demo_mode
    /\ Len(steps) = 7
    /\ steps[6].status = "completed"
    /\ steps[7].status = "failed"
    /\ SecretName(Request) \in secrets
    /\ Succeeded("CreateUser") # {}
    /\ Succeeded("AddUserToGroup") # {}
    /\ Succeeded("AttachUserPolicy") # {}
    /\ Succeeded("CreateLoginProfile") # {}
    /\ creds_location = CredsLocation(Request)
    /\ ~auOut.value.success
    /\ auOut.value.credentials_location = None
    /\ Len(results) = 1
    /\ results[1].success

\* C29: in live mode the account-level checks append nothing and every
\* finding a per-identity rule appends is NON_COMPLIANT, so the compliance
\* score of every live report is 0.0 whatever the users are, also when there
\* is no finding at all.
C29_LiveScoreIsZero ==
    ~audit_demo_mode =>
        /\ \A j \in 1..Len(findings) :
              /\ findings[j].status = "NON_COMPLIANT"
              /\ findings[j].rule_id \notin {"CIS-1.9", "CIS-1.1"}
        /\ pc = "audit_returned" =>
              /\ report.compliance_score.num = 0
              /\ report.compliance_score.den >= 1

C29_Witness ==
    /\ ~audit_demo_mode
    /\ pc = "audit_returned"
    /\ Len(users) = 2
    /\ report.total_findings >= 3
    /\ report.compliance_score.num = 0
    /\ report.compliance_score.den = report.total_findings

\* a live audit that found nothing at all also scores 0.0
C29_WitnessNoFindings ==
    /\ ~audit_demo_mode
    /\ pc = "audit_returned"
    /\ Len(users) = 1
    /\ report.total_findings = 0
    /\ report.compliance_score = [num |-> 0, den |-> 1]

\* the names of the directly attached policies of a user that grant
\* administrator or power-user access, in the order they are attached
AdminPolicyNames(u) ==
    IF HasKey(u, "AttachedPolicies")
    THEN SelectSeq([k \in 1..Len(u.AttachedPolicies) |-> u.AttachedPolicies[k].PolicyName],
                   LAMBDA name : name \in {"AdministratorAccess", "PowerUserAccess"})
    ELSE <<>>

\* the positions of the findings of a rule about a user
FindingsAbout(fs, rule_id, name) ==
    {j \in 1..Len(fs) : fs[j].rule_id = rule_id /\ fs[j].resource_id = <<name>>}

\* C30: _check_admin_privileges appends one CRITICAL CIS-1.16 finding per
\* directly attached policy named AdministratorAccess or PowerUserAccess (two
\* when both are attached, none for other policies), and in a full audit
\* every user with a CIS-1.16 finding has exactly one LOW BP-2 finding.
C30_AdminPrivilegeFindings ==
    /\ (/\ caller = "run_full_audit"
        /\ pc \in {RuleOrder[1], "check_password_policy"}
        /\ ui > 1) =>
          LET u == users[ui - 1]
              names == AdminPolicyNames(u)
          IN  /\ AppendedOnly
              /\ Len(Appended) = Len(names)
              /\ \A j \in 1..Len(names) :
                    /\ Appended[j].rule_id = "CIS-1.16"
                    /\ Appended[j].severity = "CRITICAL"
                    /\ Appended[j].resource_id = <<u.UserName>>
                    /\ Appended[j].details.policy = names[j]
    /\ pc = "audit_returned" =>
          \A i \in 1..Len(users) :
              LET name == users[i].UserName
              IN  /\ Cardinality(FindingsAbout(report.findings, "CIS-1.16", name))
                        = Len(AdminPolicyNames(users[i]))
                  /\ FindingsAbout(report.findings, "CIS-1.16", name) # {} =>
                        /\ Cardinality(FindingsAbout(report.findings, "BP-2", name)) = 1
                        /\ \A j \in FindingsAbout(report.findings, "BP-2", name) :
                              report.findings[j].severity = "LOW"

C30_Witness ==
    /\ pc = "audit_returned"
    /\ ~audit_demo_mode
    /\ Len(users) = 2
    /\ AdminPolicyNames(users[1]) = <<>>
    /\ Len(users[1].AttachedPolicies) = 0
    /\ AdminPolicyNames(users[2]) = <<"AdministratorAccess", "PowerUserAccess">>
    /\ Cardinality(FindingsAbout(report.findings, "CIS-1.16", users[2].UserName)) = 2
    /\ Cardinality(FindingsAbout(report.findings, "BP-2", users[2].UserName)) = 1
    /\ FindingsAbout(report.findings, "BP-2", users[1].UserName) = {}

\* ------------------------------------------------------------------------
\* Properties of _generate_password (specification SpecPassword)
\* ------------------------------------------------------------------------
\* C5 (as claimed): every password returned has length PASSWORD_LENGTH and
\* holds an uppercase letter, a lowercase letter and a digit.
C5_PasswordComplexity ==
    pc = "password_returned" =>
        /\ Len(password) = PASSWORD_LENGTH
        /\ AnyUpper(password)
        /\ AnyLower(password)
        /\ AnyDigit(password)

\* ------------------------------------------------------------------------
\* Properties of the decorators (specification SpecDecorators)
\* ------------------------------------------------------------------------
IsThrottle(o) ==
    /\ o.kind = "error"
    /\ IsInstance(o.exc, "ClientError")
    /\ o.exc.code \in ThrottleCodes

\* d * 2^i for i = 0..n-1
ExpectedSleeps(n) == [i \in 1..n |-> base_delay * Pow2(i - 1)]

WrapperReturned == pc \in {"audit_exit", "caller"}

\* C6 (as claimed): throttled on its first k calls and then succeeding, the
\* function is invoked k+1 times and its value returned after sleeps of
\* d*2^i when k < N; when k >= N it is invoked N times, the wrapper sleeps
\* N-1 times and the last throttling error propagates.
C6_RetryContract ==
    WrapperReturned =>
        /\ (fnK < max_retries /\ fnThen = "value") =>
              /\ Len(fnCalls) = fnK + 1
              /\ rtOut = Value(StubValue)
              /\ sleeps = ExpectedSleeps(fnK)
        /\ fnK >= max_retries =>
              /\ Len(fnCalls) = max_retries
              /\ Len(sleeps) = max_retries - 1
              /\ sleeps = ExpectedSleeps(max_retries - 1)
              /\ IsThrottle(rtOut)
              /\ rtOut = fnCalls[max_retries]

\* C6 (amended): the same for N >= 1; with N = 0 the function is never
\* invoked, the wrapper does not sleep and returns None.
C6_RetryContractAmended ==
    WrapperReturned =>
        /\ max_retries >= 1 =>
              /\ (fnK < max_retries /\ fnThen = "value") =>
                    /\ Len(fnCalls) = fnK + 1
                    /\ rtOut = Value(StubValue)
                    /\ sleeps = ExpectedSleeps(fnK)
              /\ fnK >= max_retries =>
                    /\ Len(fnCalls) = max_retries
                    /\ Len(sleeps) = max_retries - 1
                    /\ sleeps = ExpectedSleeps(max_retries - 1)
                    /\ IsThrottle(rtOut)
                    /\ rtOut = fnCalls[max_retries]
        /\ max_retries = 0 =>
              /\ fnCalls = <<>>
              /\ sleeps = <<>>
              /\ rtOut = Value(None)

C6_Witness ==
    /\ pc = "caller"
    /\ max_retries = 3
    /\ base_delay = 2
    /\ fnK = 2
    /\ fnThen = "value"
    /\ sleeps = <<2, 4>>
    /\ rtOut = Value(StubValue)

\* C7: a call of the wrapped function that fails with an error other than a
\* throttling ClientError is the last call made, no sleep follows it and the
\* wrapper propagates that error; when it is the first call, the function is
\* invoked exactly once and the wrapper never sleeps.
C7_NonThrottleNotRetried ==
    /\ \A i \in 1..Len(fnCalls) :
          (fnCalls[i].kind = "error" /\ ~IsThrottle(fnCalls[i])) =>
              /\ i = Len(fnCalls)
              /\ Len(sleeps) = i - 1
              /\ pc \in {"retry_decide", "audit_exit", "caller"}
              /\ WrapperReturned => rtOut = fnCalls[i]
    /\ (WrapperReturned /\ max_retries >= 1 /\ fnK = 0 /\ fnThen # "value") =>
          /\ Len(fnCalls) = 1
          /\ sleeps = <<>>
          /\ rtOut = fnCalls[1]
          /\ rtOut.kind = "error"

C7_Witness ==
    /\ pc = "caller"
    /\ max_retries = 3
    /\ fnK = 0
    /\ fnThen = "AccessDenied"
    /\ Len(fnCalls) = 1
    /\ rtOut.kind = "error"

\* C9: audit_log invokes the function it wraps exactly once per call and
\* hands its caller exactly the outcome of that function: the value it
\* returned or the error it raised; it writes one entry to the audit trail.
C9_AuditLogTransparent ==
    /\ pc \in {"retry_loop", "body", "retry_decide", "audit_exit", "caller"} => auInner = 1
    /\ pc = "caller" =>
          /\ auOut = rtOut
          /\ Len(auLog) = 1
          /\ auLog[1].status = IF rtOut.kind = "value" THEN "SUCCESS" ELSE "FAILED"

C9_Witness ==
    /\ pc = "caller"
    /\ auOut.kind = "error"
    /\ auOut.exc.cls = "Exception"
    /\ auLog[1].status = "FAILED"

====
